---- MODULE Spec2Model ----
(***************************************************************************)
(* Turn-based combat core of New-AI-RPG: the opposed-move resolver         *)
(* (combat_system_core_v1.01.py), the combo detector (combo_system.py) and *)
(* the adaptive opponent controller (adaptive_enemy_ai.py).                *)
(*                                                                         *)
(* Python objects are modelled by identity: a Combatant is an entry of     *)
(* cmb, a CombatSystem / ComboSystem pair is an entry of sys / combo, so   *)
(* that aliasing (the same object passed twice, two objects with one name) *)
(* behaves as in the code.  Every random draw of the code is an input of   *)
(* the action that consumes it.                                            *)
(***************************************************************************)
EXTENDS Integers, Sequences, FiniteSets, TLC

VARIABLES
    cmb,    \* Combatant objects: id -> fields
    lib,    \* CombatMove objects: id -> fields
    sys,    \* CombatSystem objects: id -> combat_log, momentum, environment_tags, round_counter
    combo,  \* ComboSystem objects: id -> combatant_move_history
    ai,     \* the AdaptiveEnemyAI object, if the caller constructed one
    ret,    \* the last call: operation, arguments, random draws consumed, returned value
    plan    \* the caller: the calls it may make, its scripted opening, calls made

vars == <<cmb, lib, sys, combo, ai, ret, plan>>

----------------------------------------------------------------------------
(* Bounds of the model *)

\* Rounds the caller resolves with freely chosen inputs, after its scripted opening.
MaxRounds == 1

\* Calls of ComboSystem.record_move the caller makes.
MaxRecords == 2

\* Calls of AdaptiveEnemyAI.choose_move the caller makes (caps rounds_played).
MaxChoices == 1
MaxRoundsRecorded == 7
MaxHistory == 6
MaxStatuses == 2

----------------------------------------------------------------------------
(* Enumerations *)

Domains == {"Body", "Mind", "Craft", "Awareness", "Social", "Authority", "Spirit"}

MoveTypes == {"Force", "Trick", "Focus", "Buff", "Debuff", "Utility"}

Min(a, b) == IF a < b THEN a ELSE b

Max(a, b) == IF a > b THEN a ELSE b

Abs(a) == IF a < 0 THEN -a ELSE a

\* dict.update: the keys of kv overwrite those of r
Update(r, kv) == kv @@ r

----------------------------------------------------------------------------
(* CombatMove *)

CombatMove(name, move_type, domains, stamina_cost, focus_cost, spirit_cost) ==
    [name |-> name, move_type |-> move_type, domains |-> domains,
     stamina_cost |-> stamina_cost, focus_cost |-> focus_cost,
     spirit_cost |-> spirit_cost,
     is_desperate |-> FALSE, is_calculated |-> FALSE, narrative_hook |-> "None"]

as_desperate(m) == [m EXCEPT !.is_desperate = TRUE]

as_calculated(m) == [m EXCEPT !.is_calculated = TRUE]

with_narrative_hook(m, hook) == [m EXCEPT !.narrative_hook = hook]

\* create_move_library
hammer_blow == CombatMove("Hammer Blow", "Force", <<"Body", "Craft">>, 2, 0, 0)

commanding_shout == CombatMove("Commanding Shout", "Force", <<"Authority", "Social">>, 0, 1, 1)

feinting_strike == CombatMove("Feinting Strike", "Trick", <<"Awareness", "Body">>, 1, 1, 0)

shadow_step == CombatMove("Shadow Step", "Trick", <<"Awareness">>, 2, 0, 0)

analytical_defense == CombatMove("Analytical Defense", "Focus", <<"Mind">>, 0, 2, 0)

spiritual_insight == CombatMove("Spiritual Insight", "Focus", <<"Spirit", "Awareness">>, 0, 0, 2)

inspiring_speech == CombatMove("Inspiring Speech", "Buff", <<"Social", "Authority">>, 0, 1, 1)

improvised_trap == CombatMove("Improvised Trap", "Utility", <<"Craft", "Awareness">>, 1, 1, 0)

----------------------------------------------------------------------------
(* Combatant *)

Combatant(name, domain_ratings, max_health, max_stamina, max_focus, max_spirit) ==
    [name |-> name, domain_ratings |-> domain_ratings,
     max_health |-> max_health, current_health |-> max_health,
     max_stamina |-> max_stamina, current_stamina |-> max_stamina,
     max_focus |-> max_focus, current_focus |-> max_focus,
     max_spirit |-> max_spirit, current_spirit |-> max_spirit,
     statuses |-> {}, available_moves |-> <<>>,
     weak_domains |-> {}, strong_domains |-> {}]

add_move(c, m) == [c EXCEPT !.available_moves = Append(@, m)]

\* mutant: the focus cost is not checked
can_use_move_without_focus(c, m) ==
    IF m.stamina_cost > c.current_stamina THEN FALSE
    ELSE IF m.spirit_cost > c.current_spirit THEN FALSE
    ELSE TRUE

can_use_move(c, m) ==
    IF m.stamina_cost > c.current_stamina THEN FALSE
    ELSE IF m.focus_cost > c.current_focus THEN FALSE
    ELSE IF m.spirit_cost > c.current_spirit THEN FALSE
    ELSE TRUE

pay_move_costs(c, m) ==
    [c EXCEPT !.current_stamina = @ - m.stamina_cost,
              !.current_focus = @ - m.focus_cost,
              !.current_spirit = @ - m.spirit_cost]

\* a variant that lets health fall below zero
apply_damage_without_floor(c, amount) ==
    LET health == c.current_health - amount
        wounded == 2 * health < c.max_health /\ "Wounded" \notin c.statuses
    IN  [c |-> [c EXCEPT !.current_health = health,
                         !.statuses = IF wounded THEN @ \cup {"Wounded"} ELSE @],
         out |-> [damage_dealt |-> amount, current_health |-> health,
                  wounded |-> wounded]]

\* a variant that reports wounded whenever health ends below half, whether or
\* not the combatant already holds the Wounded status
apply_damage_ignoring_held_status(c, amount) ==
    LET health == Max(0, c.current_health - amount)
        wounded == 2 * health < c.max_health
    IN  [c |-> [c EXCEPT !.current_health = health,
                         !.statuses = IF wounded THEN @ \cup {"Wounded"} ELSE @],
         out |-> [damage_dealt |-> amount, current_health |-> health,
                  wounded |-> wounded]]

\* returns the combatant after the damage and the dict apply_damage returns
apply_damage(c, amount) ==
    LET health == Max(0, c.current_health - amount)
        \* current_health < max_health * 0.5, exact for integers
        wounded == 2 * health < c.max_health /\ "Wounded" \notin c.statuses
    IN  [c |-> [c EXCEPT !.current_health = health,
                         !.statuses = IF wounded THEN @ \cup {"Wounded"} ELSE @],
         out |-> [damage_dealt |-> amount, current_health |-> health,
                  wounded |-> wounded]]

\* a variant in which the new status takes the place of the ones held
apply_status_replacing(c, status) ==
    [c |-> [c EXCEPT !.statuses = {status}],
     out |-> [status_applied |-> status, duration |-> 3]]

apply_status(c, status) ==
    [c |-> [c EXCEPT !.statuses = @ \cup {status}],
     out |-> [status_applied |-> status, duration |-> 3]]

get_domain_rating(c, domain) ==
    LET base == IF domain \in DOMAIN c.domain_ratings THEN c.domain_ratings[domain] ELSE 0
        w == IF "Wounded" \in c.statuses /\ domain = "Body" THEN 1 ELSE 0
        f == IF "Confused" \in c.statuses /\ domain = "Mind" THEN 1 ELSE 0
    IN  Max(0, base - w - f)

is_defeated(c) == c.current_health <= 0

----------------------------------------------------------------------------
(* CombatSystem *)

NoMomentum == [n \in {} |-> 0]

\* CombatSystem.__init__
CombatSystem ==
    [combat_log |-> <<>>, momentum |-> NoMomentum,
     environment_tags |-> {}, round_counter |-> 0]

\* mutant: momentum is an attribute of the class, one dict for all instances
assign_CombatSystem_class_momentum(objects, self, new) ==
    [o \in DOMAIN objects |->
        IF o = self THEN new ELSE [objects[o] EXCEPT !.momentum = new.momentum]]

\* the attributes are set on self: an update of one instance leaves the others
assign_CombatSystem(objects, self, new) == [objects EXCEPT ![self] = new]

\* defaultdict(int).__getitem__: a missing key is inserted with 0
momentum_read(momentum, name) ==
    IF name \in DOMAIN momentum THEN momentum ELSE momentum @@ (name :> 0)

\* mutant: the target's Focus against the actor's Force is forgotten
calculate_type_advantage_short(actor_type, target_type) ==
    IF actor_type = "Force" /\ target_type = "Trick" THEN 1
    ELSE IF actor_type = "Trick" /\ target_type = "Focus" THEN 1
    ELSE IF actor_type = "Focus" /\ target_type = "Force" THEN 1
    ELSE IF target_type = "Force" /\ actor_type = "Trick" THEN -1
    ELSE IF target_type = "Trick" /\ actor_type = "Focus" THEN -1
    ELSE 0

calculate_type_advantage(actor_type, target_type) ==
    IF actor_type = "Force" /\ target_type = "Trick" THEN 1
    ELSE IF actor_type = "Trick" /\ target_type = "Focus" THEN 1
    ELSE IF actor_type = "Focus" /\ target_type = "Force" THEN 1
    ELSE IF target_type = "Force" /\ actor_type = "Trick" THEN -1
    ELSE IF target_type = "Trick" /\ actor_type = "Focus" THEN -1
    ELSE IF target_type = "Focus" /\ actor_type = "Force" THEN -1
    ELSE 0

\* the loop over move.domains that keeps the highest rating, starting from 0
best_domain_rating(c, move) ==
    LET ratings == {get_domain_rating(c, move.domains[i]) : i \in DOMAIN move.domains} \cup {0}
    IN  CHOOSE r \in ratings : \A q \in ratings : q <= r

\* the loop over move.domains that applies the environment tags
environment_roll(tags, move) ==
    (IF "Shadowy" \in tags
        THEN Cardinality({i \in DOMAIN move.domains : move.domains[i] = "Awareness"})
        ELSE 0)
    - (IF "Confined" \in tags
        THEN Cardinality({i \in DOMAIN move.domains : move.domains[i] = "Body"})
        ELSE 0)

\* die is the value of random.randint(1, 6)
calculate_move_roll(tags, c, move, die) ==
    die + best_domain_rating(c, move) + environment_roll(tags, move)

\* mutant: the bonus is +1
apply_type_advantage_by_one(type_advantage, actor_roll, target_roll) ==
    IF type_advantage > 0 THEN [actor_roll |-> actor_roll + 1, target_roll |-> target_roll]
    ELSE IF type_advantage < 0 THEN [actor_roll |-> actor_roll, target_roll |-> target_roll + 1]
    ELSE [actor_roll |-> actor_roll, target_roll |-> target_roll]

\* +2 for the side that holds the type advantage
apply_type_advantage(type_advantage, actor_roll, target_roll) ==
    IF type_advantage > 0 THEN [actor_roll |-> actor_roll + 2, target_roll |-> target_roll]
    ELSE IF type_advantage < 0 THEN [actor_roll |-> actor_roll, target_roll |-> target_roll + 2]
    ELSE [actor_roll |-> actor_roll, target_roll |-> target_roll]

\* roll + random.randint(-3, 5)
desperate_roll(roll, draw) == roll + draw

\* a variant without the max: roll - 1 + random.randint(0, 2)
calculated_roll_without_floor(roll, draw) == roll - 1 + draw

\* max(roll, roll - 1 + random.randint(0, 2))
calculated_roll(roll, draw) == Max(roll, roll - 1 + draw)

\* the two if statements for one side: the desperate one, then the calculated one
adjusted_roll(roll, move, desperate_draw, calculated_draw) ==
    LET after_desperate == IF move.is_desperate THEN desperate_roll(roll, desperate_draw) ELSE roll
    IN  IF move.is_calculated THEN calculated_roll(after_desperate, calculated_draw)
        ELSE after_desperate

\* mutant: the actor wins ties
actor_wins_ties(actor_roll, target_roll) == actor_roll >= target_roll

actor_wins(actor_roll, target_roll) == actor_roll > target_roll

\* mutant: the winner's momentum is not clamped at 3
update_momentum_unclamped(momentum, actor_name, target_name, actor_success) ==
    IF actor_success
    THEN LET m1 == [momentum EXCEPT ![actor_name] = @ + 1]
         IN  [m1 EXCEPT ![target_name] = Max(0, @ - 1)]
    ELSE LET m1 == [momentum EXCEPT ![target_name] = @ + 1]
         IN  [m1 EXCEPT ![actor_name] = Max(0, @ - 1)]

\* mutant: the loser keeps its momentum
update_momentum_winner_only(momentum, actor_name, target_name, actor_success) ==
    IF actor_success
    THEN [momentum EXCEPT ![actor_name] = Min(3, @ + 1)]
    ELSE [momentum EXCEPT ![target_name] = Min(3, @ + 1)]

\* "winner gains, loser loses": two assignments, in the code's order
update_momentum(momentum, actor_name, target_name, actor_success) ==
    IF actor_success
    THEN LET m1 == [momentum EXCEPT ![actor_name] = Min(3, @ + 1)]
         IN  [m1 EXCEPT ![target_name] = Max(0, @ - 1)]
    ELSE LET m1 == [momentum EXCEPT ![target_name] = Min(3, @ + 1)]
         IN  [m1 EXCEPT ![actor_name] = Max(0, @ - 1)]

\* `if MoveType.DEBUFF:` tests the enum member, which is truthy for every move
debuff_branch(actor_move) == TRUE

HookOf(move) == IF move.narrative_hook # "None" THEN <<move.narrative_hook>> ELSE <<>>

RECURSIVE weakness_hooks(_, _)
weakness_hooks(domains, weak_domains) ==
    IF domains = <<>> THEN <<>>
    ELSE (IF Head(domains) \in weak_domains
             THEN <<"Exploits " \o Head(domains) \o " weakness">> ELSE <<>>)
         \o weakness_hooks(Tail(domains), weak_domains)

\* a variant that rounds the desperate damage up
damage_amount_rounded_up(effect_magnitude, actor_move, weak_domains) ==
    LET damage == effect_magnitude * 5
                  + 5 * Len(weakness_hooks(actor_move.domains, weak_domains))
    IN  IF actor_move.is_desperate THEN (damage * 3 + 1) \div 2 ELSE damage

\* damage = effect_magnitude * 5, + 5 per exploited domain, * 1.5 if desperate;
\* the value is the int(damage) handed to apply_damage
damage_amount(effect_magnitude, actor_move, weak_domains) ==
    LET damage == effect_magnitude * 5
                  + 5 * Len(weakness_hooks(actor_move.domains, weak_domains))
    IN  IF actor_move.is_desperate THEN (damage * 3) \div 2 ELSE damage

\* a variant that hands the damage to the target whatever the type of the move
success_effects_any_type(target_c, actor_move, result, pick) ==
    LET hooks1 == weakness_hooks(actor_move.domains, target_c.weak_domains)
        damage == damage_amount(result.effect_magnitude, actor_move, target_c.weak_domains)
        dmg == apply_damage(target_c, damage)
        confuse == actor_move.move_type = "Focus"
                   /\ \E i \in DOMAIN actor_move.domains : actor_move.domains[i] = "Mind"
        st1 == IF confuse THEN apply_status(dmg.c, "Confused")
               ELSE [c |-> dmg.c, out |-> <<>>]
        hooks2 == IF confuse THEN <<"Creates mental confusion">> ELSE <<>>
        st2 == IF debuff_branch(actor_move) THEN apply_status(st1.c, pick)
               ELSE [c |-> st1.c, out |-> <<>>]
        r1 == Update(Update(Update(result, dmg.out), st1.out), st2.out)
    IN  [c |-> st2.c,
         result |-> [r1 EXCEPT !.narrative_hooks = @ \o hooks1 \o hooks2]]

\* The effects of a round the actor won, on the target and on the result.
\* pick is the value of random.choice([Status.STUNNED, Status.FRIGHTENED]).
success_effects(target_c, actor_move, result, pick) ==
    LET hooks1 == weakness_hooks(actor_move.domains, target_c.weak_domains)
        damage == damage_amount(result.effect_magnitude, actor_move, target_c.weak_domains)
        dmg == IF actor_move.move_type \in {"Force", "Trick"}
               THEN apply_damage(target_c, damage)
               ELSE [c |-> target_c, out |-> <<>>]
        confuse == actor_move.move_type = "Focus"
                   /\ \E i \in DOMAIN actor_move.domains : actor_move.domains[i] = "Mind"
        st1 == IF confuse THEN apply_status(dmg.c, "Confused")
               ELSE [c |-> dmg.c, out |-> <<>>]
        hooks2 == IF confuse THEN <<"Creates mental confusion">> ELSE <<>>
        st2 == IF debuff_branch(actor_move) THEN apply_status(st1.c, pick)
               ELSE [c |-> st1.c, out |-> <<>>]
        r1 == Update(Update(Update(result, dmg.out), st1.out), st2.out)
    IN  [c |-> st2.c,
         result |-> [r1 EXCEPT !.narrative_hooks = @ \o hooks1 \o hooks2]]

failure_hooks(target_move, type_advantage) ==
    (IF target_move.move_type = "Focus" THEN <<"Perfectly reads the situation">> ELSE <<>>)
    \o (IF type_advantage < 0 THEN <<"Counter-move was perfectly chosen">> ELSE <<>>)

\* CombatSystem.resolve_opposed_moves on CombatSystem s with combatant objects
\* actor and target (possibly the same object).  c is the table of combatants.
\* draws holds the random values the call consumes.
\* a variant that appends the record and leaves the round counter alone
log_round_without_counter(s, result) == [s EXCEPT !.combat_log = Append(@, result)]

\* "Log combat event for memory": the record is appended, the counter incremented
log_round(s, result) ==
    [s EXCEPT !.combat_log = Append(@, result), !.round_counter = @ + 1]

resolve_opposed_moves(c, s, actor, actor_move, target, target_move, draws) ==
    IF ~can_use_move(c[actor], actor_move)
    THEN [c |-> c, s |-> s,
          value |-> [success |-> FALSE,
                     reason |-> <<c[actor].name, "lacks resources for", actor_move.name>>]]
    ELSE IF ~can_use_move(c[target], target_move)
    THEN [c |-> c, s |-> s,
          value |-> [success |-> FALSE,
                     reason |-> <<c[target].name, "lacks resources for", target_move.name>>]]
    ELSE
    LET c1 == [c EXCEPT ![actor] = pay_move_costs(@, actor_move)]
        c2 == [c1 EXCEPT ![target] = pay_move_costs(@, target_move)]
        an == c2[actor].name
        tn == c2[target].name
        type_advantage == calculate_type_advantage(actor_move.move_type, target_move.move_type)
        a0 == calculate_move_roll(s.environment_tags, c2[actor], actor_move, draws.actor_die)
        t0 == calculate_move_roll(s.environment_tags, c2[target], target_move, draws.target_die)
        adv == apply_type_advantage(type_advantage, a0, t0)
        m1 == momentum_read(s.momentum, an)
        a2 == adv.actor_roll + m1[an]
        m2 == momentum_read(m1, tn)
        t2 == adv.target_roll + m2[tn]
        actor_roll == adjusted_roll(a2, actor_move, draws.actor_desperate, draws.actor_calculated)
        target_roll == adjusted_roll(t2, target_move, draws.target_desperate, draws.target_calculated)
        actor_success == actor_wins(actor_roll, target_roll)
        m3 == update_momentum(m2, an, tn, actor_success)
        effect_magnitude == Abs(actor_roll - target_roll)
        result == [actor |-> an, target |-> tn,
                   actor_move |-> actor_move.name, target_move |-> target_move.name,
                   actor_roll |-> actor_roll, target_roll |-> target_roll,
                   actor_success |-> actor_success,
                   effect_magnitude |-> effect_magnitude,
                   type_advantage |-> type_advantage,
                   actor_momentum |-> m3[an], target_momentum |-> m3[tn],
                   narrative_hooks |-> <<>>]
        eff == IF actor_success
               THEN success_effects(c2[target], actor_move, result, draws.status_pick)
               ELSE [c |-> c2[target],
                     result |-> [result EXCEPT !.narrative_hooks =
                                    failure_hooks(target_move, type_advantage)]]
        final == [eff.result EXCEPT !.narrative_hooks =
                     @ \o HookOf(actor_move) \o HookOf(target_move)]
    IN  [c |-> [c2 EXCEPT ![target] = eff.c],
         s |-> log_round([s EXCEPT !.momentum = m3], final),
         value |-> final]

\* What a call hands back is a record tagged with the Python type of the
\* value: NoneType for None, Consequence for the dataclass, and the type of
\* the exception for a call that an uncaught exception ended.
NoneValue == [type |-> "NoneType"]

KeyError(key) == [type |-> "KeyError", key |-> key]

Consequence(description, affected_domains, duration, intensity, narrative_hook, affected_stats) ==
    [type |-> "Consequence", description |-> description,
     affected_domains |-> affected_domains, duration |-> duration,
     intensity |-> intensity, narrative_hook |-> narrative_hook,
     affected_stats |-> affected_stats]

\* Domain[domain_str.upper()] inside try / except KeyError: continue
affected_domains_of(domains) == SelectSeq(domains, LAMBDA d : d \in Domains)

\* CombatSystem.create_consequence on CombatSystem s (the target is not read).
\* result["..."] and actor_move["domains"] raise KeyError for a missing key;
\* the lookup of "domains" is the iterable of the for statement, outside the try.
create_consequence(s, result) ==
    IF "actor_success" \notin DOMAIN result THEN KeyError("actor_success")
    ELSE IF ~result.actor_success THEN NoneValue
    ELSE IF "effect_magnitude" \notin DOMAIN result THEN KeyError("effect_magnitude")
    ELSE IF result.effect_magnitude < 3 THEN NoneValue
    ELSE
    LET logged == {i \in DOMAIN s.combat_log : s.combat_log[i].actor_move = result.actor_move}
    IN  IF logged = {} THEN NoneValue
        ELSE
        LET actor_move == s.combat_log[CHOOSE i \in logged : \A j \in logged : i <= j]
        IN  IF "domains" \notin DOMAIN actor_move THEN KeyError("domains")
            ELSE IF result.effect_magnitude >= 5
            THEN Consequence(<<"Serious injury from", result.actor_move>>,
                             affected_domains_of(actor_move.domains), 5, 3,
                             <<"The", result.actor_move, "left a lasting mark">>,
                             "stamina_regen" :> -1)
            ELSE Consequence(<<"Minor injury from", result.actor_move>>,
                             affected_domains_of(actor_move.domains), 2, 1,
                             <<"Still feeling the effects of the", result.actor_move>>,
                             <<>>)

----------------------------------------------------------------------------
(* ComboSystem *)

NoHistory == [n \in {} |-> <<>>]

ComboMove(name, description, required_sequence, domains, bonus_effect) ==
    [name |-> name, description |-> description,
     required_sequence |-> required_sequence, domains |-> domains,
     bonus_effect |-> bonus_effect]

\* ComboSystem._initialize_combos; critical_chance 0.2 is the fraction 1/5
initialize_combos ==
    <<ComboMove("Force-Trick-Force",
                "A powerful opening followed by a feint, then a devastating blow",
                <<"Force", "Trick", "Force">>, <<"Body", "Awareness">>,
                ("damage_bonus" :> 10) @@ ("momentum_bonus" :> 1)),
      ComboMove("Focus-Focus-Force",
                "Carefully analyze the opponent's defenses, then strike with precision",
                <<"Focus", "Focus", "Force">>, <<"Mind", "Body">>,
                ("critical_chance" :> [n |-> 1, d |-> 5]) @@ ("ignore_defense" :> TRUE))>>

\* ComboSystem.__init__
ComboSystem ==
    [combatant_move_history |-> NoHistory, available_combos |-> initialize_combos]

\* the attributes are set on self: an update of one instance leaves the others
assign_ComboSystem(objects, self, new) == [objects EXCEPT ![self] = new]

\* a variant whose window drops the newest entry: pop() for pop(0)
record_move_drops_newest(cs, combatant, move_type) ==
    LET h0 == IF combatant.name \in DOMAIN cs.combatant_move_history
              THEN cs.combatant_move_history
              ELSE cs.combatant_move_history @@ (combatant.name :> <<>>)
        h1 == [h0 EXCEPT ![combatant.name] = Append(@, move_type)]
        h2 == IF Len(h1[combatant.name]) > 5
              THEN [h1 EXCEPT ![combatant.name] = SubSeq(@, 1, Len(@) - 1)]
              ELSE h1
    IN  [cs EXCEPT !.combatant_move_history = h2]

\* ComboSystem.record_move on ComboSystem cs
record_move(cs, combatant, move_type) ==
    LET h0 == IF combatant.name \in DOMAIN cs.combatant_move_history
              THEN cs.combatant_move_history
              ELSE cs.combatant_move_history @@ (combatant.name :> <<>>)
        h1 == [h0 EXCEPT ![combatant.name] = Append(@, move_type)]
        h2 == IF Len(h1[combatant.name]) > 5
              THEN [h1 EXCEPT ![combatant.name] = Tail(@)]
              ELSE h1
    IN  [cs EXCEPT !.combatant_move_history = h2]

\* move_history[-combo_length:]; with combo_length 0 the slice is the whole list
recent_moves(move_history, combo_length) ==
    IF combo_length = 0 THEN move_history
    ELSE SubSeq(move_history, Max(1, Len(move_history) - combo_length + 1), Len(move_history))

\* the narrative hooks check_for_combo builds for a combo it found
combo_hooks(combo_move) ==
    <<<<"Executes the", combo_move.name, "combo!">>, combo_move.description>>
    \o (IF "damage_bonus" \in DOMAIN combo_move.bonus_effect
        THEN <<"The combo deals extra damage!">> ELSE <<>>)
    \o (IF "critical_chance" \in DOMAIN combo_move.bonus_effect
        THEN <<"The combo targets a critical weakness!">> ELSE <<>>)
    \o (IF "ignore_defense" \in DOMAIN combo_move.bonus_effect
        THEN <<"The combo bypasses defenses!">> ELSE <<>>)

\* a variant that looks for the required sequence anywhere in the window
check_for_combo_anywhere(cs, combatant) ==
    IF combatant.name \notin DOMAIN cs.combatant_move_history THEN <<>>
    ELSE LET move_history == cs.combatant_move_history[combatant.name]
             found(i) ==
                 LET seq == cs.available_combos[i].required_sequence
                 IN  \E k \in 1..Len(move_history) :
                        /\ k + Len(seq) - 1 <= Len(move_history)
                        /\ SubSeq(move_history, k, k + Len(seq) - 1) = seq
             hits == {i \in DOMAIN cs.available_combos : found(i)}
         IN  IF hits = {} THEN <<>>
             ELSE LET combo_move == cs.available_combos[CHOOSE i \in hits : \A j \in hits : i <= j]
                  IN  <<combo_move, combo_hooks(combo_move)>>

\* ComboSystem.check_for_combo: the first combo of available_combos whose
\* required sequence is the tail of the history, as the tuple (combo,
\* narrative_hooks); None is the empty tuple
check_for_combo(cs, combatant) ==
    IF combatant.name \notin DOMAIN cs.combatant_move_history THEN <<>>
    ELSE LET move_history == cs.combatant_move_history[combatant.name]
             found(i) ==
                 LET seq == cs.available_combos[i].required_sequence
                 IN  /\ Len(move_history) >= Len(seq)
                     /\ recent_moves(move_history, Len(seq)) = seq
             hits == {i \in DOMAIN cs.available_combos : found(i)}
         IN  IF hits = {} THEN <<>>
             ELSE LET combo_move == cs.available_combos[CHOOSE i \in hits : \A j \in hits : i <= j]
                  IN  <<combo_move, combo_hooks(combo_move)>>

\* a variant that sets combo_used also when the result already carries one
apply_combo_effects_overwriting(combo_move, result) ==
    LET r1 == IF "damage_bonus" \in DOMAIN combo_move.bonus_effect
                 /\ "damage_dealt" \in DOMAIN result
              THEN [result EXCEPT !.damage_dealt = @ + combo_move.bonus_effect["damage_bonus"]]
              ELSE result
        r2 == IF "momentum_bonus" \in DOMAIN combo_move.bonus_effect
                 /\ "actor_momentum" \in DOMAIN r1
              THEN [r1 EXCEPT !.actor_momentum = @ + combo_move.bonus_effect["momentum_bonus"]]
              ELSE r1
    IN  Update(r2, "combo_used" :> combo_move.name)

\* ComboSystem.apply_combo_effects: a modified copy of the dict result
apply_combo_effects(combo_move, result) ==
    LET r1 == IF "damage_bonus" \in DOMAIN combo_move.bonus_effect
                 /\ "damage_dealt" \in DOMAIN result
              THEN [result EXCEPT !.damage_dealt = @ + combo_move.bonus_effect["damage_bonus"]]
              ELSE result
        r2 == IF "momentum_bonus" \in DOMAIN combo_move.bonus_effect
                 /\ "actor_momentum" \in DOMAIN r1
              THEN [r1 EXCEPT !.actor_momentum = @ + combo_move.bonus_effect["momentum_bonus"]]
              ELSE r1
    IN  IF "combo_used" \notin DOMAIN r2 THEN Update(r2, "combo_used" :> combo_move.name) ELSE r2

----------------------------------------------------------------------------
(* Fractions: the exact values of the float expressions of the controller *)

RECURSIVE GCD(_, _)
GCD(a, b) == IF b = 0 THEN a ELSE GCD(b, a % b)

\* n / d in lowest terms, d > 0
Frac(n, d) == LET g == GCD(Abs(n), d) IN [n |-> n \div g, d |-> d \div g]

FracAdd(a, b) == Frac(a.n * b.d + b.n * a.d, a.d * b.d)

FracSub(a, b) == Frac(a.n * b.d - b.n * a.d, a.d * b.d)

FracMul(a, b) == Frac(a.n * b.n, a.d * b.d)

FracLess(a, b) == a.n * b.d < b.n * a.d

\* random.random() < p, with random.random() in [0, 1): the outcomes possible
Chance(p) == IF p.n <= 0 THEN {FALSE} ELSE IF p.n >= p.d THEN {TRUE} ELSE BOOLEAN

\* random.choice(seq): pick is the draw
choice(seq, pick) == seq[((pick - 1) % Len(seq)) + 1]

Range(seq) == {seq[i] : i \in DOMAIN seq}

----------------------------------------------------------------------------
(* EnemyPersonality, CombatMemento, AdaptiveEnemyAI *)

EnemyPersonality(aggression, adaptability, risk_taking, calculation, specialization, preferred_moves) ==
    [aggression |-> aggression, adaptability |-> adaptability,
     risk_taking |-> risk_taking, calculation |-> calculation,
     specialization |-> specialization, preferred_moves |-> preferred_moves]

\* EnemyPersonality(): every trait 0.5, no specialization, no preferred moves
DefaultPersonality ==
    EnemyPersonality(Frac(1, 2), Frac(1, 2), Frac(1, 2), Frac(1, 2), <<>>, <<>>)

\* CombatMemento.__init__
CombatMemento ==
    [player_moves_used |-> <<>>, successful_player_moves |-> <<>>,
     successful_enemy_moves |-> <<>>, player_patterns |-> <<>>]

\* AdaptiveEnemyAI.__init__; enemy is the Combatant object, available_moves the
\* list of CombatMove objects
AdaptiveEnemyAI(enemy, personality, available_moves) ==
    [enemy |-> enemy, personality |-> personality, available_moves |-> available_moves,
     difficulty |-> Frac(1, 2), memento |-> CombatMemento, rounds_played |-> 0,
     desperation_threshold |-> Frac(3, 10)]

\* The risk_taking values r/100 for which the binary64 value of
\* 0.3 - (r/100 * 0.15) lies below the binary64 value nearest to the exact
\* difference (for no r/100 does it lie above): e.g. 0.3 - 0.5 * 0.15 is
\* 0.22499999999999998, and 9 / 40 is 0.225.
ThresholdRoundsLow ==
    {Frac(r, 100) : r \in {13, 14, 15, 16, 17, 18, 19, 21, 23, 44, 45, 46, 47, 48, 49,
                           50, 51, 52, 53, 54, 55, 56, 65, 66, 67, 68, 86, 87, 88, 89,
                           90, 91, 92, 93}}

\* AdaptiveEnemyAI._is_desperate: health_ratio <= adjusted_threshold in binary64.
\* The ratios of the model differ from the threshold by far more than a
\* rounding error unless they equal it exactly; then the rounding of the
\* threshold decides.
is_desperate(a, c) ==
    LET health_ratio == Frac(c.current_health, c.max_health)
        adjusted_threshold ==
            FracSub(a.desperation_threshold, FracMul(a.personality.risk_taking, Frac(15, 100)))
    IN  IF health_ratio = adjusted_threshold
        THEN a.personality.risk_taking \notin ThresholdRoundsLow
        ELSE FracLess(health_ratio, adjusted_threshold)

\* AdaptiveEnemyAI._should_counter: the chance compared with random.random()
counter_chance(a, player_last_move) ==
    LET base == FracAdd(Frac(1, 5), FracMul(a.personality.adaptability, Frac(2, 5)))
    IN  IF player_last_move.move_type \in Range(a.memento.successful_player_moves)
        THEN FracAdd(base, Frac(1, 5)) ELSE base

\* AdaptiveEnemyAI._should_exploit_weakness: the chance compared with random.random()
exploit_chance(a, player) ==
    LET base == FracAdd(Frac(3, 10), FracMul(a.personality.aggression, Frac(2, 5)))
    IN  IF player.statuses \cap {"Wounded", "Confused", "Stunned"} # {}
        THEN FracAdd(base, Frac(1, 5)) ELSE base

get_counter_move_type(a, move_type) ==
    IF move_type = "Force" THEN "Focus"
    ELSE IF move_type = "Trick" THEN "Force"
    ELSE IF move_type = "Focus" THEN "Trick"
    ELSE IF a.personality.preferred_moves # <<>> THEN a.personality.preferred_moves[1]
    ELSE "Focus"

\* The choosers take the table l of CombatMove objects and the usable moves
\* (objects of l); they return the table after the flags and hooks they set
\* on the chosen object, the chosen object, and (by) the function whose
\* return statement handed it back.  rnd holds the draws.

choose_standard_move(a, l, usable_moves, rnd) ==
    LET preferred_type(m) == l[m].move_type \in Range(a.personality.preferred_moves)
        special(m) == Range(l[m].domains) \cap Range(a.personality.specialization) # {}
        force(m) == l[m].move_type = "Force"
        type_filtered == IF a.personality.preferred_moves # <<>>
                         THEN SelectSeq(usable_moves, preferred_type) ELSE <<>>
        domain_filtered == IF type_filtered = <<>> /\ a.personality.specialization # <<>>
                           THEN SelectSeq(usable_moves, special) ELSE <<>>
        preferred_moves == IF domain_filtered # <<>> THEN domain_filtered ELSE type_filtered
        move_pool == IF preferred_moves # <<>> THEN preferred_moves ELSE usable_moves
        force_moves == SelectSeq(move_pool, force)
        chosen_move == choice(move_pool, rnd.pick)
    IN  IF rnd.aggressive /\ force_moves # <<>>
        THEN [lib |-> l, move |-> choice(force_moves, rnd.pick), by |-> "standard"]
        ELSE IF rnd.calculating
        THEN [lib |-> [l EXCEPT ![chosen_move] = as_calculated(@)], move |-> chosen_move,
              by |-> "standard"]
        ELSE IF rnd.risky
        THEN [lib |-> [l EXCEPT ![chosen_move] = as_desperate(@)], move |-> chosen_move,
              by |-> "standard"]
        ELSE [lib |-> l, move |-> chosen_move, by |-> "standard"]

choose_desperate_move(l, usable_moves, rnd) ==
    LET force(m) == l[m].move_type = "Force"
        force_moves == SelectSeq(usable_moves, force)
        chosen_move == IF force_moves # <<>> THEN choice(force_moves, rnd.pick)
                       ELSE choice(usable_moves, rnd.pick)
    IN  [lib |-> [l EXCEPT ![chosen_move] =
                     with_narrative_hook([@ EXCEPT !.is_desperate = TRUE],
                                         "Fights with desperate fury")],
         move |-> chosen_move, by |-> "desperate"]

choose_counter_move(a, l, usable_moves, player_move, rnd) ==
    LET counter_type == get_counter_move_type(a, player_move.move_type)
        counters(m) == l[m].move_type = counter_type
        counter_moves == SelectSeq(usable_moves, counters)
        chosen_move == choice(counter_moves, rnd.pick)
    IN  IF counter_moves # <<>>
        THEN IF rnd.calculated_counter
             THEN [lib |-> [l EXCEPT ![chosen_move] =
                              with_narrative_hook(as_calculated(@),
                                                  "Analyzes and counters your strategy")],
                   move |-> chosen_move, by |-> "counter"]
             ELSE [lib |-> l, move |-> chosen_move, by |-> "counter"]
        ELSE choose_standard_move(a, l, usable_moves, rnd)

choose_weakness_targeting_move(a, l, usable_moves, player, rnd) ==
    LET body(m) == "Body" \in Range(l[m].domains) /\ l[m].move_type = "Force"
        mind(m) == "Mind" \in Range(l[m].domains) /\ l[m].move_type = "Focus"
        body_moves == SelectSeq(usable_moves, body)
        mind_moves == SelectSeq(usable_moves, mind)
    IN  IF "Wounded" \in player.statuses /\ body_moves # <<>>
        THEN LET chosen_move == choice(body_moves, rnd.pick)
             IN  [lib |-> [l EXCEPT ![chosen_move] =
                              with_narrative_hook(@, "Targets your wounds")],
                  move |-> chosen_move, by |-> "weakness"]
        ELSE IF "Confused" \in player.statuses /\ mind_moves # <<>>
        THEN LET chosen_move == choice(mind_moves, rnd.pick)
             IN  [lib |-> [l EXCEPT ![chosen_move] =
                              with_narrative_hook(@, "Exploits your confusion")],
                  move |-> chosen_move, by |-> "weakness"]
        ELSE choose_standard_move(a, l, usable_moves, rnd)

\* the move choose_move creates when no move is usable
DesperateAction == CombatMove("Desperate Action", "Force", <<"Body">>, 0, 0, 0)

\* a variant that tests the counter before the desperate state
choose_move_counter_first(a, c, l, player, player_last_move, rnd) ==
    LET a1 == [a EXCEPT !.rounds_played = @ + 1]
        usable(m) == can_use_move(c[a.enemy], l[m])
        usable_moves == SelectSeq(a.available_moves, usable)
        chosen ==
            IF player_last_move # "None" /\ rnd.counter
            THEN [branch |-> "counter"]
                 @@ choose_counter_move(a1, l, usable_moves, l[player_last_move], rnd)
            ELSE IF is_desperate(a1, c[a.enemy])
            THEN [branch |-> "desperate"] @@ choose_desperate_move(l, usable_moves, rnd)
            ELSE IF rnd.exploit
            THEN [branch |-> "weakness"]
                 @@ choose_weakness_targeting_move(a1, l, usable_moves, c[player], rnd)
            ELSE [branch |-> "standard"] @@ choose_standard_move(a1, l, usable_moves, rnd)
    IN  IF usable_moves = <<>>
        THEN [ai |-> a1, lib |-> ("desperate_action" :> DesperateAction) @@ l,
              branch |-> "fallback", move |-> "desperate_action", by |-> "fallback"]
        ELSE [ai |-> a1, lib |-> chosen.lib, branch |-> chosen.branch, move |-> chosen.move,
              by |-> chosen.by]

\* AdaptiveEnemyAI.choose_move on controller a; c is the table of combatants, l
\* the table of moves, player a combatant, player_last_move a move of l or
\* "None".  Returns the controller and the table of moves after the call, the
\* branch whose test was true, the function that returned the move (by) and
\* the move returned (an object of the table).
choose_move(a, c, l, player, player_last_move, rnd) ==
    LET a1 == [a EXCEPT !.rounds_played = @ + 1]
        usable(m) == can_use_move(c[a.enemy], l[m])
        usable_moves == SelectSeq(a.available_moves, usable)
        chosen ==
            IF is_desperate(a1, c[a.enemy])
            THEN [branch |-> "desperate"] @@ choose_desperate_move(l, usable_moves, rnd)
            ELSE IF player_last_move # "None" /\ rnd.counter
            THEN [branch |-> "counter"]
                 @@ choose_counter_move(a1, l, usable_moves, l[player_last_move], rnd)
            ELSE IF rnd.exploit
            THEN [branch |-> "weakness"]
                 @@ choose_weakness_targeting_move(a1, l, usable_moves, c[player], rnd)
            ELSE [branch |-> "standard"] @@ choose_standard_move(a1, l, usable_moves, rnd)
    IN  IF usable_moves = <<>>
        THEN [ai |-> a1, lib |-> ("desperate_action" :> DesperateAction) @@ l,
              branch |-> "fallback", move |-> "desperate_action", by |-> "fallback"]
        ELSE [ai |-> a1, lib |-> chosen.lib, branch |-> chosen.branch, move |-> chosen.move,
              by |-> chosen.by]

----------------------------------------------------------------------------
(* CombatMemento.record_round, AdaptiveEnemyAI.update_from_combat_result *)

\* A dict of the pattern table keeps its keys in insertion order: it is a
\* sequence of <<key, value>> pairs.  The table maps "A-B" to a dict that maps
\* the follow-up to its count; the key "A-B" is the pair <<A, B>>.
DictKeys(d) == {d[i][1] : i \in DOMAIN d}

DictGet(d, k) == d[CHOOSE i \in DOMAIN d : d[i][1] = k][2]

DictPut(d, k, v) ==
    IF k \in DictKeys(d)
    THEN [i \in DOMAIN d |-> IF d[i][1] = k THEN <<k, v>> ELSE d[i]]
    ELSE Append(d, <<k, v>>)

\* one pass of the loop of _update_player_patterns, from index i (counted from 1)
RECURSIVE count_patterns(_, _, _)
count_patterns(moves, patterns, i) ==
    IF i > Len(moves) - 2 THEN patterns
    ELSE LET pattern_key == <<moves[i], moves[i + 1]>>
             follow_up == moves[i + 2]
             p1 == IF pattern_key \in DictKeys(patterns) THEN patterns
                   ELSE DictPut(patterns, pattern_key, <<>>)
             inner1 == IF follow_up \in DictKeys(DictGet(p1, pattern_key))
                       THEN DictGet(p1, pattern_key)
                       ELSE DictPut(DictGet(p1, pattern_key), follow_up, 0)
             inner2 == DictPut(inner1, follow_up, DictGet(inner1, follow_up) + 1)
         IN  count_patterns(moves, DictPut(p1, pattern_key, inner2), i + 1)

\* CombatMemento._update_player_patterns: every call walks the whole history
update_player_patterns(m) ==
    IF Len(m.player_moves_used) < 3 THEN m
    ELSE [m EXCEPT !.player_patterns = count_patterns(m.player_moves_used, @, 1)]

\* CombatMemento.record_round; the moves are given by their types
record_round(m, player_move_type, enemy_move_type, player_success) ==
    LET m1 == [m EXCEPT !.player_moves_used = Append(@, player_move_type)]
        m2 == IF player_success
              THEN [m1 EXCEPT !.successful_player_moves = Append(@, player_move_type)]
              ELSE [m1 EXCEPT !.successful_enemy_moves = Append(@, enemy_move_type)]
    IN  update_player_patterns(m2)

\* max(predictions.items(), key=count): the first pair with the highest count
most_common(predictions) ==
    predictions[CHOOSE i \in DOMAIN predictions :
                   /\ \A j \in DOMAIN predictions : predictions[j][2] <= predictions[i][2]
                   /\ \A j \in 1..(i - 1) : predictions[j][2] < predictions[i][2]]

\* CombatMemento.predict_next_move
predict_next_move(m) ==
    IF Len(m.player_moves_used) < 2 THEN "None"
    ELSE LET n == Len(m.player_moves_used)
             pattern_key == <<m.player_moves_used[n - 1], m.player_moves_used[n]>>
         IN  IF pattern_key \in DictKeys(m.player_patterns)
                /\ DictGet(m.player_patterns, pattern_key) # <<>>
             THEN most_common(DictGet(m.player_patterns, pattern_key))[1]
             ELSE "None"

\* result.get(key, default) on the dict a call of resolve_opposed_moves returned
ResultGet(result, key, default) == IF key \in DOMAIN result THEN result[key] ELSE default

\* the loop over MoveType of update_from_combat_result: the member whose value
\* equals the given entry of the result (the NAME of a move), or None
move_type_of_value(value) == IF value \in MoveTypes THEN value ELSE "None"

\* a variant without min(1.0, ...) on the reinforced aggression
adapt_personality_uncapped(a, enemy, result) ==
    IF FracLess(a.personality.adaptability, Frac(3, 10)) THEN a
    ELSE
    LET success == ~ResultGet(result, "actor_success", TRUE)
        effect_magnitude == ResultGet(result, "effect_magnitude", 0)
        aggression == a.personality.aggression
        risk_taking == a.personality.risk_taking
        One == Frac(1, 1)
        aggression1 ==
            IF success /\ FracLess(Frac(3, 10), aggression)
            THEN FracMul(aggression, Frac(105, 100))
            ELSE IF ~success /\ FracLess(Frac(3, 10), aggression)
            THEN FracMul(aggression, Frac(95, 100))
            ELSE aggression
        health_ratio == Frac(enemy.current_health, enemy.max_health)
        risk_taking1 ==
            IF FracLess(health_ratio, Frac(1, 2)) /\ ~success
            THEN LET x == FracMul(risk_taking, Frac(11, 10))
                 IN  IF FracLess(One, x) THEN One ELSE x
            ELSE IF success /\ effect_magnitude > 3
            THEN risk_taking
            ELSE FracAdd(Frac(1, 2),
                         FracMul(FracSub(risk_taking, Frac(1, 2)), Frac(95, 100)))
    IN  [a EXCEPT !.personality.aggression = aggression1,
                  !.personality.risk_taking = risk_taking1]

\* AdaptiveEnemyAI._adapt_personality; the traits are exact fractions
adapt_personality(a, enemy, result) ==
    IF FracLess(a.personality.adaptability, Frac(3, 10)) THEN a
    ELSE
    LET success == ~ResultGet(result, "actor_success", TRUE)
        effect_magnitude == ResultGet(result, "effect_magnitude", 0)
        aggression == a.personality.aggression
        risk_taking == a.personality.risk_taking
        One == Frac(1, 1)
        aggression1 ==
            IF success /\ FracLess(Frac(3, 10), aggression)
            THEN LET x == FracMul(aggression, Frac(105, 100))
                 IN  IF FracLess(One, x) THEN One ELSE x
            ELSE IF ~success /\ FracLess(Frac(3, 10), aggression)
            THEN FracMul(aggression, Frac(95, 100))
            ELSE aggression
        health_ratio == Frac(enemy.current_health, enemy.max_health)
        risk_taking1 ==
            IF FracLess(health_ratio, Frac(1, 2)) /\ ~success
            THEN LET x == FracMul(risk_taking, Frac(11, 10))
                 IN  IF FracLess(One, x) THEN One ELSE x
            ELSE IF success /\ effect_magnitude > 3
            THEN risk_taking
            ELSE FracAdd(Frac(1, 2),
                         FracMul(FracSub(risk_taking, Frac(1, 2)), Frac(95, 100)))
    IN  [a EXCEPT !.personality.aggression = aggression1,
                  !.personality.risk_taking = risk_taking1]

\* AdaptiveEnemyAI.update_from_combat_result on controller a; c is the table of
\* combatants, result the dict a call of resolve_opposed_moves returned
update_from_combat_result(a, c, result) ==
    LET player_move_type == move_type_of_value(ResultGet(result, "actor_move", "None"))
        enemy_move_type == move_type_of_value(ResultGet(result, "target_move", "None"))
    IN  IF player_move_type = "None" \/ enemy_move_type = "None" THEN a
        ELSE adapt_personality(
                 [a EXCEPT !.memento = record_round(@, player_move_type, enemy_move_type,
                                                    ResultGet(result, "actor_success", FALSE))],
                 c[a.enemy], result)

----------------------------------------------------------------------------
(* status_system.py: StatusTier, EnhancedStatus, StatusFactory *)

StatusTiers == {"MINOR", "MODERATE", "SEVERE", "CRITICAL"}

EnhancedStatus(name, base_status, tier, source, duration, affected_domains, stat_modifiers, domain_modifiers, special_effects) ==
    [name |-> name, base_status |-> base_status, tier |-> tier, source |-> source,
     duration |-> duration, affected_domains |-> affected_domains,
     stat_modifiers |-> stat_modifiers, domain_modifiers |-> domain_modifiers,
     special_effects |-> special_effects]

\* StatusFactory.create_wounded (the description texts are left out)
create_wounded(tier) ==
    IF tier = "MINOR"
    THEN EnhancedStatus("Lightly Wounded", "Wounded", tier, "PHYSICAL", 3, <<"Body">>,
                        "stamina_regen" :> -1,
                        "Body" :> -1,
                        <<>>)
    ELSE IF tier = "MODERATE"
    THEN EnhancedStatus("Wounded", "Wounded", tier, "PHYSICAL", 4, <<"Body", "Awareness">>,
                        ("stamina_regen" :> -1) @@ ("max_stamina" :> -10),
                        ("Body" :> -1) @@ ("Awareness" :> -1),
                        <<"May leave blood trail">>)
    ELSE IF tier = "SEVERE"
    THEN EnhancedStatus("Severely Wounded", "Wounded", tier, "PHYSICAL", 6,
                        <<"Body", "Awareness", "Craft">>,
                        ("stamina_regen" :> -2) @@ ("max_stamina" :> -20),
                        ("Body" :> -2) @@ ("Awareness" :> -1) @@ ("Craft" :> -1),
                        <<"Bleeding: Take 3 damage each round",
                          "Visible weakness: Enemies target you more">>)
    ELSE EnhancedStatus("Critically Wounded", "Wounded", tier, "PHYSICAL", 8,
                        <<"Body", "Awareness", "Craft", "Mind">>,
                        ("stamina_regen" :> -3) @@ ("max_stamina" :> -30)
                          @@ ("max_focus" :> -20),
                        ("Body" :> -3) @@ ("Awareness" :> -2) @@ ("Craft" :> -2)
                          @@ ("Mind" :> -1),
                        <<"Heavy Bleeding: Take 5 damage each round",
                          "Shock: 20% chance to lose a turn",
                          "Requires immediate medical attention">>)

\* EnhancedStatus._apply_stat_modifiers: of the stats of the record only
\* "max_stamina" has a branch that changes the combatant
apply_stat_modifiers(status, c) ==
    IF "max_stamina" \in DOMAIN status.stat_modifiers
    THEN [c EXCEPT !.max_stamina = Max(1, @ + status.stat_modifiers["max_stamina"])]
    ELSE c

\* combatant.enhanced_statuses, an attribute the first application creates
enhanced_statuses(c) == IF "enhanced_statuses" \in DOMAIN c THEN c.enhanced_statuses ELSE <<>>

\* EnhancedStatus.apply_to_combatant
apply_to_combatant(status, c) ==
    LET c1 == [c EXCEPT !.statuses = @ \cup {status.base_status}]
        c2 == Update(c1, "enhanced_statuses" :> Append(enhanced_statuses(c1), status))
    IN  apply_stat_modifiers(status, c2)

\* EnhancedStatus.get_domain_modifier
get_domain_modifier(status, domain) ==
    IF domain \in DOMAIN status.domain_modifiers THEN status.domain_modifiers[domain] ELSE 0

\* the status argument is an EnhancedStatus, not None
IsStatus(status) == "tier" \in DOMAIN status

\* a variant in which a Critical status adds what a Severe one adds
severity_critical_as_severe(result, status) ==
    IF IsStatus(status) /\ status.tier \in {"SEVERE", "CRITICAL"} THEN result.effect_magnitude + 2
    ELSE result.effect_magnitude

\* the local severity of create_consequence_from_combat
severity(result, status) ==
    IF IsStatus(status) /\ status.tier = "SEVERE" THEN result.effect_magnitude + 2
    ELSE IF IsStatus(status) /\ status.tier = "CRITICAL" THEN result.effect_magnitude + 4
    ELSE result.effect_magnitude

\* ConsequenceSystem.create_consequence_from_combat (the target is not read)
create_consequence_from_combat(result, status) ==
    IF ~result.actor_success \/ result.effect_magnitude < 3 THEN NoneValue
    ELSE
    LET affected_domains == IF IsStatus(status) THEN status.affected_domains ELSE <<>>
    IN  IF severity(result, status) >= 8
        THEN Consequence(<<"Permanent injury from", result.actor_move>>, affected_domains, -1, 4,
                         <<"The", result.actor_move, "left a permanent scar, both physically and mentally">>,
                         ("max_health" :> -10) @@ ("stamina_regen" :> -1))
        ELSE IF severity(result, status) >= 5
        THEN Consequence(<<"Serious injury from", result.actor_move>>, affected_domains, 5, 3,
                         <<"The", result.actor_move, "left a lasting mark">>,
                         "stamina_regen" :> -1)
        ELSE Consequence(<<"Minor injury from", result.actor_move>>, affected_domains, 2, 1,
                         <<"Still feeling the effects of the", result.actor_move>>,
                         <<>>)

----------------------------------------------------------------------------
(* environment_system.py *)

\* EnvironmentSystem.__init__ (the interactions are not modelled)
EnvironmentSystem == [environment_tags |-> {}]

\* the body of the loop of apply_environment_modifiers for one domain:
\* the change of roll_modifier and the hooks appended
environment_modifier_for(e, move, actor, domain) ==
    LET darkness ==
            IF domain = "Awareness" /\ "Darkness" \in e.environment_tags
            THEN IF "Darkness" \in actor.strong_domains
                 THEN [roll |-> 2, hooks |-> <<"Expertly navigates the darkness">>]
                 ELSE [roll |-> -1, hooks |-> <<"Struggles to perceive in darkness">>]
            ELSE [roll |-> 0, hooks |-> <<>>]
        confined ==
            IF domain = "Body" /\ "Confined Space" \in e.environment_tags
            THEN [roll |-> -1, hooks |-> <<"Limited movement in the confined space">>]
            ELSE [roll |-> 0, hooks |-> <<>>]
        aura ==
            IF /\ domain = "Mind" /\ "Magical Aura" \in e.environment_tags
               /\ \E i \in DOMAIN move.domains : move.domains[i] = "Spirit"
            THEN [roll |-> 2, hooks |-> <<"Channels the ambient magical energy">>]
            ELSE [roll |-> 0, hooks |-> <<>>]
        field ==
            IF domain = "Authority" /\ "Open Field" \in e.environment_tags
            THEN [roll |-> 1, hooks |-> <<"Voice carries powerfully across the field">>]
            ELSE [roll |-> 0, hooks |-> <<>>]
        ruins ==
            IF domain = "Craft" /\ "Ruins" \in e.environment_tags
            THEN [roll |-> 1, hooks |-> <<"Uses scattered debris as improvised tools">>]
            ELSE [roll |-> 0, hooks |-> <<>>]
    IN  [roll |-> darkness.roll + confined.roll + aura.roll + field.roll + ruins.roll,
         hooks |-> darkness.hooks \o confined.hooks \o aura.hooks \o field.hooks \o ruins.hooks]

\* the loop over move.domains from position i on
RECURSIVE environment_modifiers_from(_, _, _, _)
environment_modifiers_from(e, move, actor, i) ==
    IF i > Len(move.domains) THEN [roll |-> 0, hooks |-> <<>>]
    ELSE LET here == environment_modifier_for(e, move, actor, move.domains[i])
             rest == environment_modifiers_from(e, move, actor, i + 1)
         IN  [roll |-> here.roll + rest.roll, hooks |-> here.hooks \o rest.hooks]

\* EnvironmentSystem.apply_environment_modifiers: (roll_modifier, narrative_hooks)
apply_environment_modifiers(e, move, actor) ==
    LET total == environment_modifiers_from(e, move, actor, 1)
    IN  <<total.roll, total.hooks>>

----------------------------------------------------------------------------
(* Objects and inputs *)

Combatants == {"c1", "c2", "c3", "c4"}

Sessions == {"s1", "s2"}

\* random.randint(1, 6)
Die == 1..6

\* random.randint(-3, 5), drawn only for a desperate move
DesperateDraws(move) == IF move.is_desperate THEN -3..5 ELSE {0}

\* random.randint(0, 2), drawn only for a calculated move
CalculatedDraws(move) == IF move.is_calculated THEN 0..2 ELSE {0}

\* random.choice([Status.STUNNED, Status.FRIGHTENED])
StatusPicks == {"Stunned", "Frightened"}

Ratings(body, mind, awareness) ==
    [d \in Domains |-> IF d = "Body" THEN body ELSE IF d = "Mind" THEN mind
                       ELSE IF d = "Awareness" THEN awareness ELSE 1]

\* a combatant that takes no part in a scenario
Bystander == Combatant("Bystander", Ratings(1, 1, 1), 100, 100, 100, 100)

Call(s, actor, actor_move, target, target_move) ==
    [session |-> s, actor |-> actor, actor_move |-> actor_move,
     target |-> target, target_move |-> target_move]

Draws(da, dt, pick) ==
    [actor_die |-> da, target_die |-> dt, status_pick |-> pick,
     actor_desperate |-> 0, actor_calculated |-> 0,
     target_desperate |-> 0, target_calculated |-> 0]

Scripted(call, draws) == [call |-> call, draws |-> draws]

\* the combinations of random values a round with these moves can draw, the
\* two dice taken from dice
AllDraws(dice, actor_move, target_move) ==
    {[actor_die |-> da, target_die |-> dt, status_pick |-> pick,
      actor_desperate |-> xa, actor_calculated |-> ya,
      target_desperate |-> xt, target_calculated |-> yt] :
        da \in dice, dt \in dice, pick \in StatusPicks,
        xa \in DesperateDraws(actor_move), ya \in CalculatedDraws(actor_move),
        xt \in DesperateDraws(target_move), yt \in CalculatedDraws(target_move)}

NoCall == [op |-> "none"]

----------------------------------------------------------------------------
(* Scenarios of the resolver: the objects a caller constructs, the calls it *)
(* may make with them, and a scripted opening (rounds with fixed inputs)   *)
(* that it may play first.                                                 *)

\* create_move_library, and flagged uses of its templates
MoveLibrary ==
    ("hammer_blow" :> hammer_blow) @@ ("commanding_shout" :> commanding_shout)
    @@ ("feinting_strike" :> feinting_strike) @@ ("shadow_step" :> shadow_step)
    @@ ("analytical_defense" :> analytical_defense)
    @@ ("spiritual_insight" :> spiritual_insight)
    @@ ("inspiring_speech" :> inspiring_speech) @@ ("improvised_trap" :> improvised_trap)
    @@ ("reckless_blow" :> as_desperate(hammer_blow))
    @@ ("measured_feint" :> as_calculated(feinting_strike))

FreshSessions == [s \in Sessions |-> CombatSystem]

FreshCombos == [s \in Sessions |-> ComboSystem]

\* no AdaptiveEnemyAI was constructed
NoController == [enemy |-> "none"]

Record(s, combatant, move_type) ==
    [session |-> s, combatant |-> combatant, move_type |-> move_type]

\* The example of the source: Hero against Bandit in a shadowy, confined scene.
Duel ==
    [cmb |-> [c \in Combatants |->
                IF c = "c1" THEN Combatant("Hero", Ratings(3, 2, 3), 100, 100, 100, 100)
                ELSE IF c = "c2"
                THEN [Combatant("Bandit", Ratings(2, 1, 2), 50, 100, 100, 100)
                        EXCEPT !.weak_domains = {"Mind"}]
                ELSE Bystander],
     lib |-> MoveLibrary, ai |-> NoController, records |-> {},
     sys |-> [FreshSessions EXCEPT !["s1"].environment_tags = {"Shadowy", "Confined"}],
     calls |-> {Call("s1", "c1", "hammer_blow", "c2", "feinting_strike"),
                Call("s1", "c2", "feinting_strike", "c1", "hammer_blow")},
     opening |-> [i \in 1..3 |->
                    Scripted(Call("s1", "c1", "hammer_blow", "c2", "feinting_strike"),
                             Draws(6, 1, "Stunned"))]]

\* Small pools: moves become unaffordable, and a combatant may be its own target.
Scarce ==
    [cmb |-> [c \in Combatants |->
                IF c = "c1" THEN Combatant("Hero", Ratings(3, 2, 3), 100, 3, 2, 0)
                ELSE IF c = "c2" THEN Combatant("Bandit", Ratings(2, 1, 2), 20, 1, 1, 0)
                ELSE Bystander],
     lib |-> MoveLibrary, ai |-> NoController, records |-> {},
     sys |-> FreshSessions,
     calls |-> {Call("s1", "c1", "hammer_blow", "c2", "feinting_strike"),
                Call("s1", "c1", "analytical_defense", "c2", "feinting_strike"),
                Call("s1", "c2", "feinting_strike", "c1", "analytical_defense"),
                Call("s1", "c1", "hammer_blow", "c1", "hammer_blow")},
     opening |-> <<Scripted(Call("s1", "c1", "analytical_defense", "c2", "feinting_strike"),
                            Draws(6, 1, "Frightened"))>>]

\* A move flagged desperate, and a move flagged calculated.
Reckless ==
    [cmb |-> [c \in Combatants |->
                IF c = "c1" THEN Combatant("Hero", Ratings(2, 2, 2), 100, 100, 100, 100)
                ELSE IF c = "c2"
                THEN [Combatant("Bandit", Ratings(2, 2, 2), 50, 100, 100, 100)
                        EXCEPT !.weak_domains = {"Body"}]
                ELSE Bystander],
     lib |-> MoveLibrary, ai |-> NoController, records |-> {},
     sys |-> FreshSessions,
     calls |-> {Call("s1", "c1", "reckless_blow", "c2", "feinting_strike")},
     opening |-> <<>>]

Measured ==
    [Reckless EXCEPT !.calls = {Call("s1", "c2", "measured_feint", "c1", "analytical_defense")}]

\* a Debuff move of the caller's own: the library holds none
Hex == CombatMove("Hex", "Debuff", <<"Mind", "Spirit">>, 0, 1, 0)

\* the dice of the Medley rounds: low, middle, high
MedleyDice == {1, 3, 6}

\* One actor move of each type other than Trick, against the same answer.
Medley ==
    [cmb |-> [c \in Combatants |->
                IF c = "c1" THEN Combatant("Hero", Ratings(3, 2, 3), 100, 100, 100, 100)
                ELSE IF c = "c2" THEN Combatant("Bandit", Ratings(2, 1, 2), 30, 100, 100, 100)
                ELSE Bystander],
     lib |-> ("hex" :> Hex) @@ MoveLibrary, ai |-> NoController, records |-> {},
     sys |-> FreshSessions,
     calls |-> {Call("s1", "c1", m, "c2", "feinting_strike") :
                  m \in {"hammer_blow", "analytical_defense", "inspiring_speech",
                          "hex", "improvised_trap"}},
     dice |-> MedleyDice,
     opening |-> <<>>]

ResolverScenarios == {Duel, Scarce, Reckless, Measured, Medley}

StartOf(sc) ==
    /\ cmb = sc.cmb
    /\ lib = sc.lib
    /\ sys = sc.sys
    /\ combo = FreshCombos
    /\ ai = sc.ai
    /\ ret = NoCall
    /\ plan = [calls |-> sc.calls, records |-> sc.records, opening |-> sc.opening,
               free |-> 0, recorded |-> 0, count |-> [c \in Combatants |-> 0],
               dice |-> IF "dice" \in DOMAIN sc THEN sc.dice ELSE Die]

Init == \E sc \in ResolverScenarios : StartOf(sc)

----------------------------------------------------------------------------
(* The resolver's actions *)

\* One call of resolve_opposed_moves, with the objects the call names.
Resolved(call, draws) ==
    LET r == resolve_opposed_moves(cmb, sys[call.session], call.actor,
                                   lib[call.actor_move], call.target,
                                   lib[call.target_move], draws)
    IN  /\ cmb' = r.c
        /\ sys' = assign_CombatSystem(sys, call.session, r.s)
        /\ ret' = [op |-> "resolve_opposed_moves", call |-> call,
                   actor_move |-> lib[call.actor_move],
                   target_move |-> lib[call.target_move],
                   draws |-> [draws EXCEPT !.status_pick = "-"],
                   value |-> r.value]
        /\ UNCHANGED <<lib, combo, ai>>

\* the next round of the scripted opening
Opening ==
    /\ plan.opening # <<>>
    /\ plan.free = 0
    /\ Resolved(Head(plan.opening).call, Head(plan.opening).draws)
    /\ plan' = [plan EXCEPT !.opening = Tail(@)]

\* after the opening, a round with any of the caller's calls and any random draws
Resolve ==
    /\ plan.opening = <<>>
    /\ plan.free < MaxRounds
    /\ \E call \in plan.calls :
       \E draws \in AllDraws(plan.dice, lib[call.actor_move], lib[call.target_move]) :
          /\ Resolved(call, draws)
          /\ plan' = [plan EXCEPT !.free = @ + 1]

Next == Opening \/ Resolve

Spec == Init /\ [][Next]_vars

----------------------------------------------------------------------------
(* Two independent sessions whose combatants share their names *)

\* Hero against Bandit in session s1, another Hero against another Bandit in
\* session s2; the rounds of the opening alternate between the sessions.
Twins(da, dt) ==
    [cmb |-> [c \in Combatants |->
                IF c \in {"c1", "c3"}
                THEN Combatant("Hero", Ratings(3, 2, 3), 100, 100, 100, 100)
                ELSE Combatant("Bandit", Ratings(2, 1, 2), 50, 100, 100, 100)],
     lib |-> MoveLibrary, ai |-> NoController,
     sys |-> FreshSessions,
     calls |-> {},
     records |-> {Record("s1", "c1", "Force"), Record("s1", "c2", "Trick"),
                  Record("s2", "c3", "Focus"), Record("s2", "c4", "Trick")},
     opening |-> <<Scripted(Call("s1", "c1", "hammer_blow", "c2", "feinting_strike"),
                            Draws(da, dt, "Stunned")),
                   Scripted(Call("s2", "c4", "feinting_strike", "c3", "analytical_defense"),
                            Draws(da, dt, "Frightened")),
                   Scripted(Call("s1", "c1", "hammer_blow", "c2", "feinting_strike"),
                            Draws(da, dt, "Stunned")),
                   Scripted(Call("s2", "c3", "analytical_defense", "c4", "feinting_strike"),
                            Draws(dt, da, "Stunned"))>>]

InitSessions == \E da \in Die, dt \in Die : StartOf(Twins(da, dt))

\* One call of ComboSystem.record_move.
Recorded(rec) ==
    /\ combo' = assign_ComboSystem(combo, rec.session,
                    record_move(combo[rec.session], cmb[rec.combatant], rec.move_type))
    /\ ret' = [op |-> "record_move", call |-> rec]
    /\ plan' = [plan EXCEPT !.recorded = @ + 1, !.count[rec.combatant] = @ + 1]
    /\ UNCHANGED <<cmb, lib, sys, ai>>

RecordMove ==
    /\ plan.recorded < MaxRecords
    /\ \E rec \in plan.records : Recorded(rec)

NextSessions == Opening \/ RecordMove

SpecSessions == InitSessions /\ [][NextSessions]_vars

----------------------------------------------------------------------------
(* One session with two combatants that share a name *)

NamesakeDice == {2, 5}

\* Hero (c1) against two different Bandits (c2 and c4) in the one session s1:
\* any of the three may meet any other, and a move may be recorded for each.
Namesakes ==
    [cmb |-> [c \in Combatants |->
                IF c = "c1" THEN Combatant("Hero", Ratings(3, 2, 3), 100, 100, 100, 100)
                ELSE IF c = "c3" THEN Bystander
                ELSE Combatant("Bandit", Ratings(2, 1, 2), 50, 100, 100, 100)],
     lib |-> MoveLibrary, ai |-> NoController,
     sys |-> FreshSessions,
     calls |-> {Call("s1", "c1", "hammer_blow", "c2", "feinting_strike"),
                Call("s1", "c4", "feinting_strike", "c1", "analytical_defense"),
                Call("s1", "c2", "hammer_blow", "c4", "feinting_strike")},
     records |-> {Record("s1", "c1", "Force"), Record("s1", "c2", "Trick"),
                  Record("s1", "c4", "Focus")},
     dice |-> NamesakeDice,
     opening |-> <<Scripted(Call("s1", "c1", "hammer_blow", "c2", "feinting_strike"),
                            Draws(5, 2, "Stunned"))>>]

InitNamesakes == StartOf(Namesakes)

NextNamesakes == Opening \/ Resolve \/ RecordMove

SpecNamesakes == InitNamesakes /\ [][NextNamesakes]_vars

----------------------------------------------------------------------------
(* The controller: Hero (the player) against a Bandit that an AdaptiveEnemyAI *)
(* controls.  The scripted openings bring the Bandit's health onto, and     *)
(* then below, the desperation threshold of its personality.                *)

BanditMoves == <<"hammer_blow", "feinting_strike", "analytical_defense">>

Controlled(personality, max_health, max_stamina, max_focus, opening) ==
    [cmb |-> [c \in Combatants |->
                IF c = "c1" THEN Combatant("Hero", Ratings(3, 2, 3), 100, 100, 100, 100)
                ELSE IF c = "c2"
                THEN Combatant("Bandit", Ratings(2, 1, 2), max_health, max_stamina, max_focus, 0)
                ELSE Bystander],
     lib |-> MoveLibrary,
     ai |-> AdaptiveEnemyAI("c2", personality, BanditMoves),
     sys |-> FreshSessions,
     calls |-> {}, records |-> {},
     opening |-> opening]

HeroStrikes(move, da, dt) ==
    Scripted(Call("s1", "c1", move, "c2", "feinting_strike"), Draws(da, dt, "Stunned"))

\* risk_taking 0.5 (the default): threshold 0.225, health 80 -> 43 -> 18 -> 3
Cornered ==
    Controlled(DefaultPersonality, 80, 100, 100,
               <<HeroStrikes("reckless_blow", 3, 1), HeroStrikes("shadow_step", 4, 1),
                 HeroStrikes("shadow_step", 1, 1)>>)

\* risk_taking 1.0: threshold 0.15, health 20 -> 13 -> 3 -> 0
CorneredBold ==
    Controlled([DefaultPersonality EXCEPT !.risk_taking = Frac(1, 1),
                                          !.preferred_moves = <<"Trick">>], 20, 100, 100,
               <<HeroStrikes("reckless_blow", 1, 3), HeroStrikes("shadow_step", 1, 1),
                 HeroStrikes("shadow_step", 1, 1)>>)

\* risk_taking 0.0: threshold 0.3, health 20 -> 13 -> 6 -> 1
CorneredWary ==
    Controlled([DefaultPersonality EXCEPT !.risk_taking = Frac(0, 1),
                                          !.specialization = <<"Mind">>], 20, 100, 100,
               <<HeroStrikes("reckless_blow", 1, 3), HeroStrikes("reckless_blow", 1, 4),
                 HeroStrikes("shadow_step", 1, 3)>>)

\* the Bandit's pools are used up by its first move
Exhausted ==
    Controlled(DefaultPersonality, 50, 1, 1, <<HeroStrikes("shadow_step", 1, 6)>>)

\* the Bandit is both sides of a round and pays its move twice
Spent ==
    Controlled(DefaultPersonality, 50, 3, 2,
               <<Scripted(Call("s1", "c2", "hammer_blow", "c2", "hammer_blow"),
                          Draws(3, 3, "Stunned"))>>)

\* moves a caller named after their types: CombatMove("Force", MoveType.FORCE, ...)
TypeNamedMoves ==
    ("force" :> CombatMove("Force", "Force", <<"Body">>, 1, 0, 0))
    @@ ("trick" :> CombatMove("Trick", "Trick", <<"Awareness">>, 1, 0, 0))

TypeNamedRound(move, da, dt) ==
    Scripted(Call("s1", "c1", move, "c2", "trick"), Draws(da, dt, "Stunned"))

\* the only rounds update_from_combat_result records: both moves carry the
\* value of a move type as their name
TypeNamed ==
    [Controlled(DefaultPersonality, 60, 100, 100,
                <<TypeNamedRound("force", 4, 1), TypeNamedRound("trick", 1, 5),
                  TypeNamedRound("force", 6, 1), TypeNamedRound("trick", 2, 2)>>)
       EXCEPT !.lib = TypeNamedMoves @@ MoveLibrary]

ControllerScenarios == {Cornered, CorneredBold, CorneredWary, Exhausted, Spent, TypeNamed}

\* the player's moves, and the values of player_last_move the caller passes
PlayerMoves == {"shadow_step"}

LastMoves == {"None", "reckless_blow"}

\* the dice of the round that follows a choice: the lowest and the highest
ChosenRoundDice == {1, 6}

InitAI == \E sc \in ControllerScenarios : StartOf(sc)

\* One call of AdaptiveEnemyAI.choose_move, with the player c1.
ChooseMove ==
    /\ ai.enemy \in Combatants
    /\ plan.free = 0
    /\ ai.rounds_played < MaxChoices
    /\ \E last \in LastMoves, pick \in 1..Max(1, Len(ai.available_moves)),
          counter \in BOOLEAN, calculated_counter \in BOOLEAN, exploit \in BOOLEAN,
          aggressive \in BOOLEAN, calculating \in BOOLEAN, risky \in BOOLEAN :
          /\ counter \in (IF last = "None" THEN {FALSE}
                          ELSE Chance(counter_chance(ai, lib[last])))
          /\ calculated_counter \in Chance(ai.personality.calculation)
          /\ exploit \in Chance(exploit_chance(ai, cmb["c1"]))
          /\ aggressive \in Chance(ai.personality.aggression)
          /\ calculating \in Chance(ai.personality.calculation)
          /\ risky \in Chance(ai.personality.risk_taking)
          /\ LET r == choose_move(ai, cmb, lib, "c1", last,
                                  [pick |-> pick, counter |-> counter,
                                   calculated_counter |-> calculated_counter,
                                   exploit |-> exploit, aggressive |-> aggressive,
                                   calculating |-> calculating, risky |-> risky])
             IN  /\ ai' = r.ai
                 /\ lib' = r.lib
                 /\ ret' = [op |-> "choose_move", player_last_move |-> last,
                            branch |-> r.branch, by |-> r.by, move |-> r.move,
                            value |-> r.lib[r.move]]
    /\ UNCHANGED <<cmb, sys, combo, plan>>

\* The round resolved with the move choose_move returned: the player acts,
\* the controller's combatant answers with the chosen move.
ResolveChosen ==
    /\ ret.op = "choose_move"
    /\ plan.free < MaxRounds
    /\ \E pm \in PlayerMoves :
       \E draws \in AllDraws(ChosenRoundDice, lib[pm], lib[ret.move]) :
          /\ Resolved(Call("s1", "c1", pm, ai.enemy, ret.move), draws)
          /\ plan' = [plan EXCEPT !.free = @ + 1]

\* One call of AdaptiveEnemyAI.update_from_combat_result, with the result the
\* last call of resolve_opposed_moves returned.
UpdateFromResult ==
    /\ ai.enemy \in Combatants
    /\ ret.op = "resolve_opposed_moves"
    /\ ai' = update_from_combat_result(ai, cmb, ret.value)
    /\ ret' = [op |-> "update_from_combat_result", call |-> ret.call,
               actor_move |-> ret.actor_move, target_move |-> ret.target_move,
               result |-> ret.value]
    /\ UNCHANGED <<cmb, lib, sys, combo, plan>>

NextAI == Opening \/ ChooseMove \/ ResolveChosen \/ UpdateFromResult

SpecAI == InitAI /\ [][NextAI]_vars

----------------------------------------------------------------------------
(* The memento on its own: record_round and predict_next_move called directly *)

\* the rounds a caller records: the player's move, the enemy's move, player_success
RecordedRounds ==
    {<<"hammer_blow", "feinting_strike", TRUE>>,
     <<"feinting_strike", "feinting_strike", TRUE>>,
     <<"feinting_strike", "feinting_strike", FALSE>>}

InitMemento == StartOf(Controlled(DefaultPersonality, 80, 100, 100, <<>>))

\* One call of ai.memento.record_round.
RecordRound ==
    /\ Len(ai.memento.player_moves_used) < MaxRoundsRecorded
    /\ \E round \in RecordedRounds :
          /\ ai' = [ai EXCEPT !.memento = record_round(@, lib[round[1]].move_type,
                                                       lib[round[2]].move_type, round[3])]
          /\ ret' = [op |-> "record_round", round |-> round]
    /\ UNCHANGED <<cmb, lib, sys, combo, plan>>

\* One call of ai.memento.predict_next_move.
PredictNextMove ==
    /\ ret.op # "predict_next_move"
    /\ ret' = [op |-> "predict_next_move", value |-> predict_next_move(ai.memento)]
    /\ UNCHANGED <<cmb, lib, sys, combo, ai, plan>>

NextMemento == RecordRound \/ PredictNextMove

SpecMemento == InitMemento /\ [][NextMemento]_vars

----------------------------------------------------------------------------
(* The combo detector: a caller that resolves rounds, records move types,   *)
(* asks for combos and applies a combo to the result of a round.            *)

\* a combo the caller registers: combo_system.available_combos.append(...)
TrickFocusForce ==
    ComboMove("Trick-Focus-Force", "A feint, a moment of study, then the blow",
              <<"Trick", "Focus", "Force">>, <<"Awareness", "Mind", "Body">>,
              "damage_bonus" :> 5)

RegisteredCombos ==
    [FreshCombos EXCEPT !["s1"].available_combos = Append(@, TrickFocusForce)]

\* only move types are recorded: any of three for the Hero, one for the Bandit
Drill ==
    [cmb |-> [c \in Combatants |->
                IF c = "c1" THEN Combatant("Hero", Ratings(3, 2, 3), 100, 100, 100, 100)
                ELSE IF c = "c2" THEN Combatant("Bandit", Ratings(2, 1, 2), 50, 100, 100, 100)
                ELSE Bystander],
     lib |-> MoveLibrary, ai |-> NoController,
     records |-> {Record("s1", "c1", "Force"), Record("s1", "c1", "Trick"),
                  Record("s1", "c1", "Focus"), Record("s1", "c2", "Trick")},
     sys |-> FreshSessions, combo |-> RegisteredCombos,
     calls |-> {}, opening |-> <<>>]

HeroWins(move) ==
    Scripted(Call("s1", "c1", move, "c2", "analytical_defense"), Draws(6, 1, "Stunned"))

\* the Hero wins three rounds with Force, Trick, Force; then one more round,
\* which the Bandit cannot afford when it is the actor
Bout ==
    [cmb |-> [c \in Combatants |->
                IF c = "c1" THEN Combatant("Hero", Ratings(3, 2, 3), 100, 100, 100, 100)
                ELSE IF c = "c2" THEN Combatant("Bandit", Ratings(1, 1, 1), 200, 1, 100, 0)
                ELSE Bystander],
     lib |-> MoveLibrary, ai |-> NoController,
     records |-> {},
     sys |-> FreshSessions, combo |-> RegisteredCombos,
     calls |-> {Call("s1", "c1", "hammer_blow", "c2", "analytical_defense"),
                Call("s1", "c2", "hammer_blow", "c1", "analytical_defense")},
     opening |-> <<HeroWins("hammer_blow"), HeroWins("feinting_strike"),
                   HeroWins("hammer_blow")>>]

ComboScenarios == {Drill, Bout}

InitCombo ==
    \E sc \in ComboScenarios :
        /\ cmb = sc.cmb
        /\ lib = sc.lib
        /\ sys = sc.sys
        /\ combo = sc.combo
        /\ ai = sc.ai
        /\ ret = NoCall
        /\ plan = [calls |-> sc.calls, records |-> sc.records, opening |-> sc.opening,
                   free |-> 0, recorded |-> 0, count |-> [c \in Combatants |-> 0],
                   dice |-> Die]

\* One call of ComboSystem.record_move.
RecordHistory ==
    /\ plan.recorded < MaxHistory
    /\ \E rec \in plan.records : Recorded(rec)

\* One call of ComboSystem.check_for_combo.
CheckForCombo ==
    /\ ret.op # "check_for_combo"
    /\ \E c \in {"c1", "c2"} :
          ret' = [op |-> "check_for_combo", session |-> "s1", combatant |-> c,
                  value |-> check_for_combo(combo["s1"], cmb[c])]
    /\ UNCHANGED <<cmb, lib, sys, combo, ai, plan>>

MaxCombosApplied == 2

\* One call of ComboSystem.apply_combo_effects, with one of the available
\* combos and the result the last call of resolve_opposed_moves returned, or
\* the record the last call of apply_combo_effects returned (applied counts
\* the calls made on one round's result).
ApplyComboEffects ==
    /\ \/ ret.op = "resolve_opposed_moves"
       \/ ret.op = "apply_combo_effects" /\ ret.applied < MaxCombosApplied
    /\ LET session == IF ret.op = "resolve_opposed_moves" THEN ret.call.session ELSE ret.session
       IN  \E i \in DOMAIN combo[session].available_combos :
              ret' = [op |-> "apply_combo_effects", session |-> session,
                      combo_move |-> combo[session].available_combos[i],
                      result |-> ret.value,
                      applied |-> IF ret.op = "resolve_opposed_moves" THEN 1 ELSE ret.applied + 1,
                      value |-> apply_combo_effects(combo[session].available_combos[i],
                                                    ret.value)]
    /\ UNCHANGED <<cmb, lib, sys, combo, ai, plan>>

\* One call of CombatSystem.create_consequence, on the system that resolved
\* the last round and with the result that call returned.
CreateConsequence ==
    /\ ret.op = "resolve_opposed_moves"
    /\ ret' = [op |-> "create_consequence", session |-> ret.call.session,
               result |-> ret.value,
               value |-> create_consequence(sys[ret.call.session], ret.value)]
    /\ UNCHANGED <<cmb, lib, sys, combo, ai, plan>>

NextCombo ==
    \/ Opening
    \/ Resolve
    \/ RecordHistory
    \/ CheckForCombo
    \/ ApplyComboEffects
    \/ CreateConsequence

SpecCombo == InitCombo /\ [][NextCombo]_vars

----------------------------------------------------------------------------
(* Tiered statuses applied between the rounds of an encounter *)

InfirmaryDice == {1, 6}

\* The Hero strikes the Bandit, who answers with an Awareness move; a first
\* round is scripted, so that the pools are no longer full.
Infirmary ==
    [cmb |-> [c \in Combatants |->
                IF c = "c1" THEN Combatant("Hero", Ratings(3, 2, 3), 100, 100, 100, 100)
                ELSE IF c = "c2" THEN Combatant("Bandit", Ratings(2, 1, 2), 60, 25, 100, 100)
                ELSE Bystander],
     lib |-> MoveLibrary, ai |-> NoController, records |-> {},
     sys |-> FreshSessions,
     calls |-> {Call("s1", "c1", "hammer_blow", "c2", "shadow_step")},
     dice |-> InfirmaryDice,
     opening |-> <<Scripted(Call("s1", "c1", "hammer_blow", "c2", "shadow_step"),
                            Draws(3, 1, "Stunned"))>>]

WardDice == {4}

\* A longer encounter: four scripted rounds, more than the 3 rounds of
\* duration a status tag is given, in which the Hero brings the Bandit from
\* 60 to 35, 5 and 0 and then strikes the defeated Bandit; afterwards either
\* of them may act.
Ward ==
    [Infirmary EXCEPT
       !.calls = {Call("s1", "c1", "hammer_blow", "c2", "shadow_step"),
                  Call("s1", "c2", "shadow_step", "c1", "hammer_blow")},
       !.dice = WardDice,
       !.opening = [i \in 1..4 |->
                      Scripted(Call("s1", "c1", "hammer_blow", "c2", "shadow_step"),
                               Draws(3, 1, "Stunned"))]]

StatusScenarios == {Infirmary, Ward}

InitStatus == \E sc \in StatusScenarios : StartOf(sc)

\* the number of tiered statuses applied so far
AppliedStatuses == Len(enhanced_statuses(cmb["c1"])) + Len(enhanced_statuses(cmb["c2"]))

\* One call of StatusFactory.create_wounded(tier).apply_to_combatant(c).
ApplyToCombatant ==
    /\ AppliedStatuses < MaxStatuses
    /\ \E c \in {"c1", "c2"}, tier \in StatusTiers :
          /\ cmb' = [cmb EXCEPT ![c] = apply_to_combatant(create_wounded(tier), @)]
          /\ ret' = [op |-> "apply_to_combatant", combatant |-> c,
                     status |-> create_wounded(tier)]
    /\ UNCHANGED <<lib, sys, combo, ai, plan>>

NextStatus == Opening \/ Resolve \/ ApplyToCombatant

SpecStatus == InitStatus /\ [][NextStatus]_vars

----------------------------------------------------------------------------
(* create_consequence_from_combat on its own: every magnitude and tier *)

MaxMagnitude == 12

\* the keys of a resolved round that the two consequence functions read
RoundResults ==
    {[actor |-> "Hero", actor_move |-> "Hammer Blow", target |-> "Bandit",
      target_move |-> "Shadow Step", actor_success |-> success, effect_magnitude |-> magnitude] :
        success \in BOOLEAN, magnitude \in 0..MaxMagnitude}

\* None, or the status applied in the round
StatusArguments == {NoneValue} \cup {create_wounded(tier) : tier \in StatusTiers}

\* the round is in the log of s1, as resolve_opposed_moves leaves it
InitConsequence ==
    /\ cmb = Infirmary.cmb
    /\ lib = MoveLibrary
    /\ combo = FreshCombos
    /\ ai = NoController
    /\ plan = [calls |-> {}, records |-> {}, opening |-> <<>>, free |-> 0, recorded |-> 0,
               count |-> [c \in Combatants |-> 0], dice |-> Die]
    /\ \E result \in RoundResults, status \in StatusArguments :
          /\ sys = [FreshSessions EXCEPT !["s1"] = log_round(@, result)]
          /\ ret = [op |-> "pending", result |-> result, status |-> status]

CreateConsequenceFromCombat ==
    /\ ret.op = "pending"
    /\ ret' = [op |-> "create_consequence_from_combat", result |-> ret.result,
               status |-> ret.status,
               value |-> create_consequence_from_combat(ret.result, ret.status)]
    /\ UNCHANGED <<cmb, lib, sys, combo, ai, plan>>

SpecConsequence == InitConsequence /\ [][CreateConsequenceFromCombat]_vars

----------------------------------------------------------------------------
(* The type-advantage function on its own: every pair of move types *)

\* one move of every type, and the library's moves
MoveSamples ==
    {CombatMove("Sample", t, <<"Body">>, 0, 0, 0) : t \in MoveTypes}
    \cup {MoveLibrary[k] : k \in DOMAIN MoveLibrary}

InitAdvantage ==
    /\ cmb = Duel.cmb
    /\ lib = MoveLibrary
    /\ sys = FreshSessions
    /\ combo = FreshCombos
    /\ ai = NoController
    /\ plan = [calls |-> {}, records |-> {}, opening |-> <<>>, free |-> 0, recorded |-> 0,
               count |-> [c \in Combatants |-> 0], dice |-> Die]
    /\ \E m1 \in MoveSamples, m2 \in MoveSamples :
          ret = [op |-> "pending", actor_move |-> m1, target_move |-> m2]

TypeAdvantage ==
    /\ ret.op = "pending"
    /\ ret' = [op |-> "calculate_type_advantage",
               actor_type |-> ret.actor_move.move_type,
               target_type |-> ret.target_move.move_type,
               value |-> calculate_type_advantage(ret.actor_move.move_type,
                                                  ret.target_move.move_type)]
    /\ UNCHANGED <<cmb, lib, sys, combo, ai, plan>>

SpecAdvantage == InitAdvantage /\ [][TypeAdvantage]_vars

----------------------------------------------------------------------------
(* The two environment adjustments on the same scene, move and combatant *)

MaxSceneTags == 2

\* the tags apply_environment_modifiers reads and the tags _calculate_move_roll reads
SceneTags ==
    {"Darkness", "Confined Space", "Magical Aura", "Open Field", "Ruins", "Shadowy", "Confined"}

Scenes == {tags \in SUBSET SceneTags : Cardinality(tags) <= MaxSceneTags}

\* the Hero, and the Hero with "Darkness" among its strong domains
SceneActors ==
    {[Combatant("Hero", Ratings(3, 2, 3), 100, 100, 100, 100) EXCEPT !.strong_domains = strong] :
        strong \in {{}, {"Darkness"}}}

SceneMoves == {MoveLibrary[k] : k \in DOMAIN MoveLibrary} \cup {Hex}

\* the scene tags are given to the CombatSystem and to the EnvironmentSystem
InitEnvironment ==
    /\ lib = MoveLibrary
    /\ combo = FreshCombos
    /\ ai = NoController
    /\ plan = [calls |-> {}, records |-> {}, opening |-> <<>>, free |-> 0, recorded |-> 0,
               count |-> [c \in Combatants |-> 0], dice |-> Die]
    /\ \E tags \in Scenes, move \in SceneMoves, actor \in SceneActors :
          /\ cmb = [Duel.cmb EXCEPT !["c1"] = actor]
          /\ sys = [FreshSessions EXCEPT !["s1"].environment_tags = tags]
          /\ ret = [op |-> "pending", move |-> move,
                    environment |-> [EnvironmentSystem EXCEPT !.environment_tags = tags]]

\* both adjustments for the pending move: the tuple apply_environment_modifiers
\* returns and the base roll of _calculate_move_roll for a die
ApplyEnvironmentModifiers ==
    /\ ret.op = "pending"
    /\ \E die \in {1, 6} :
          ret' = [op |-> "apply_environment_modifiers", move |-> ret.move,
                  environment |-> ret.environment, die |-> die,
                  value |-> apply_environment_modifiers(ret.environment, ret.move, cmb["c1"]),
                  roll |-> calculate_move_roll(sys["s1"].environment_tags, cmb["c1"], ret.move, die)]
    /\ UNCHANGED <<cmb, lib, sys, combo, ai, plan>>

SpecEnvironment == InitEnvironment /\ [][ApplyEnvironmentModifiers]_vars

----------------------------------------------------------------------------
(* The desperate and calculated adjustments on their own *)

MaxRoll == 12

\* a move as built, as_desperate(), as_calculated(), and with both flags
FlaggedMoves ==
    {hammer_blow, as_desperate(hammer_blow), as_calculated(hammer_blow),
     as_calculated(as_desperate(hammer_blow))}

\* the roll of one side after type advantage and momentum, and the two draws
InitAdjust ==
    /\ cmb = Duel.cmb
    /\ lib = MoveLibrary
    /\ sys = FreshSessions
    /\ combo = FreshCombos
    /\ ai = NoController
    /\ plan = [calls |-> {}, records |-> {}, opening |-> <<>>, free |-> 0, recorded |-> 0,
               count |-> [c \in Combatants |-> 0], dice |-> Die]
    /\ \E roll \in 0..MaxRoll, move \in FlaggedMoves :
          \E desperate_draw \in DesperateDraws(move), calculated_draw \in CalculatedDraws(move) :
             ret = [op |-> "pending", roll |-> roll, move |-> move,
                    desperate_draw |-> desperate_draw, calculated_draw |-> calculated_draw]

AdjustRoll ==
    /\ ret.op = "pending"
    /\ ret' = [op |-> "adjusted_roll", roll |-> ret.roll, move |-> ret.move,
               desperate_draw |-> ret.desperate_draw, calculated_draw |-> ret.calculated_draw,
               value |-> adjusted_roll(ret.roll, ret.move, ret.desperate_draw, ret.calculated_draw)]
    /\ UNCHANGED <<cmb, lib, sys, combo, ai, plan>>

SpecAdjust == InitAdjust /\ [][AdjustRoll]_vars

----------------------------------------------------------------------------
(* Adaptation on its own: recorded rounds for a grid of personalities *)

MaxAdaptations == 2

\* trait values on and around the thresholds 0.3, 0.5 and 1.0
AdaptingPersonalities ==
    {EnemyPersonality(aggression, adaptability, risk_taking, Frac(1, 2), <<>>, <<>>) :
        aggression \in {Frac(0, 1), Frac(3, 10), Frac(1, 2), Frac(1, 1)},
        adaptability \in {Frac(1, 4), Frac(3, 10), Frac(1, 2)},
        risk_taking \in {Frac(0, 1), Frac(1, 2), Frac(1, 1)}}

\* the Bandit's health of 60: below half, and exactly half
AdaptingHealths == {20, 30}

\* results of rounds between moves named after their types (the rounds
\* update_from_combat_result records), the player being the actor
RecordedResults ==
    {[actor |-> "Hero", target |-> "Bandit", actor_move |-> "Force", target_move |-> "Trick",
      actor_success |-> success, effect_magnitude |-> magnitude] :
        success \in BOOLEAN, magnitude \in {3, 4}}

InitAdapt ==
    /\ lib = TypeNamed.lib
    /\ sys = FreshSessions
    /\ combo = FreshCombos
    /\ ret = NoCall
    /\ plan = [calls |-> {}, records |-> {}, opening |-> <<>>, free |-> 0, recorded |-> 0,
               count |-> [c \in Combatants |-> 0], dice |-> Die]
    /\ \E personality \in AdaptingPersonalities, health \in AdaptingHealths :
          /\ cmb = [TypeNamed.cmb EXCEPT !["c2"].current_health = health]
          /\ ai = AdaptiveEnemyAI("c2", personality, <<"force", "trick">>)

\* One call of AdaptiveEnemyAI.update_from_combat_result with a result that
\* is recorded.
UpdateRecorded ==
    /\ Len(ai.memento.player_moves_used) < MaxAdaptations
    /\ \E result \in RecordedResults :
          /\ ai' = update_from_combat_result(ai, cmb, result)
          /\ ret' = [op |-> "update_from_combat_result", result |-> result]
    /\ UNCHANGED <<cmb, lib, sys, combo, plan>>

SpecAdapt == InitAdapt /\ [][UpdateRecorded]_vars

----------------------------------------------------------------------------
(* Reading the last call *)

\* the last call was resolve_opposed_moves and returned a failure result
IsFailure(r) == r.op = "resolve_opposed_moves" /\ "success" \in DOMAIN r.value

\* the last call was resolve_opposed_moves and resolved the round
IsRound(r) == r.op = "resolve_opposed_moves" /\ "actor_success" \in DOMAIN r.value

MomentumOf(s, name) == IF name \in DOMAIN s.momentum THEN s.momentum[name] ELSE 0

\* some cost of the move exceeds the combatant's current pool
CostExceedsPool(c, m) ==
    \/ m.stamina_cost > c.current_stamina
    \/ m.focus_cost > c.current_focus
    \/ m.spirit_cost > c.current_spirit

----------------------------------------------------------------------------
(* Claims *)

\* C1: a call of resolve_opposed_moves in which the actor or the target cannot
\* afford its move returns a failure result naming that combatant and move, and
\* leaves every combatant and every session (log, momentum, round counter) as
\* they were.
C1_UnaffordableCallChangesNothing ==
    [][(ret'.op = "resolve_opposed_moves"
        /\ (CostExceedsPool(cmb[ret'.call.actor], ret'.actor_move)
            \/ CostExceedsPool(cmb[ret'.call.target], ret'.target_move)))
       => /\ IsFailure(ret')
          /\ ret'.value.success = FALSE
          /\ LET who == IF CostExceedsPool(cmb[ret'.call.actor], ret'.actor_move)
                        THEN <<cmb[ret'.call.actor].name, ret'.actor_move.name>>
                        ELSE <<cmb[ret'.call.target].name, ret'.target_move.name>>
             IN  ret'.value.reason = <<who[1], "lacks resources for", who[2]>>
          /\ cmb' = cmb
          /\ sys' = sys]_vars

\* C1 witness: after at least one resolved round, a call failed for the actor's
\* focus although the actor's stamina and spirit sufficed.
C1_Witness ==
    /\ IsFailure(ret)
    /\ sys[ret.call.session].round_counter > 0
    /\ ret.actor_move.focus_cost > cmb[ret.call.actor].current_focus
    /\ ret.actor_move.stamina_cost <= cmb[ret.call.actor].current_stamina

\* C2: every combatant's health, stamina, focus and spirit stay within [0, max].
C2_PoolsWithinBounds ==
    \A c \in Combatants :
        /\ 0 <= cmb[c].current_health /\ cmb[c].current_health <= cmb[c].max_health
        /\ 0 <= cmb[c].current_stamina /\ cmb[c].current_stamina <= cmb[c].max_stamina
        /\ 0 <= cmb[c].current_focus /\ cmb[c].current_focus <= cmb[c].max_focus
        /\ 0 <= cmb[c].current_spirit /\ cmb[c].current_spirit <= cmb[c].max_spirit

\* C3: in every session the momentum stored for every name is an integer in [0, 3].
C3_MomentumInRange ==
    \A s \in Sessions : \A n \in DOMAIN sys[s].momentum : sys[s].momentum[n] \in 0..3

\* C3 witness: a combatant at momentum 3 won one more round against a combatant
\* at momentum 0 (both clamps were reached).
C3_Witness ==
    /\ IsRound(ret)
    /\ ret.value.actor_success
    /\ Len(sys[ret.call.session].combat_log) >= 4
    /\ sys[ret.call.session].momentum[ret.value.actor] = 3
    /\ sys[ret.call.session].momentum[ret.value.target] = 0

\* The name whose combatant won, and lost, the round of call r.
WinnerName(r) == IF r.value.actor_success THEN r.value.actor ELSE r.value.target

LoserName(r) == IF r.value.actor_success THEN r.value.target ELSE r.value.actor

\* C4: a resolved round between combatants with different names sets the
\* winner's momentum to min(3, old + 1) and the loser's to max(0, old - 1), and no
\* resolved round changes any name's momentum by more than 1.
C4_MomentumStep ==
    [][IsRound(ret')
       => LET old == sys[ret'.call.session]
              new == sys'[ret'.call.session]
          IN  /\ (ret'.value.actor # ret'.value.target
                  => /\ MomentumOf(new, WinnerName(ret'))
                          = Min(3, MomentumOf(old, WinnerName(ret')) + 1)
                     /\ MomentumOf(new, LoserName(ret'))
                          = Max(0, MomentumOf(old, LoserName(ret')) - 1))
              /\ \A n \in DOMAIN new.momentum :
                    Abs(MomentumOf(new, n) - MomentumOf(old, n)) <= 1]_vars

\* C4 witness: the target won a round against an actor that had momentum, so the
\* loser's momentum stepped down by one.
C4_Witness ==
    /\ IsRound(ret)
    /\ ~ret.value.actor_success
    /\ ret.value.actor # ret.value.target
    /\ ret.value.target_momentum = 1
    /\ ret.value.actor_momentum = 2

\* C5: in every resolved round the actor succeeds exactly when its adjusted roll
\* is strictly greater than the target's; on equal rolls the target wins, the
\* effect magnitude is 0 and the target's health is unchanged.
C5_StrictlyHigherRollWins ==
    [][IsRound(ret')
       => /\ ret'.value.actor_success <=> (ret'.value.actor_roll > ret'.value.target_roll)
          /\ (ret'.value.actor_roll = ret'.value.target_roll
              => /\ ~ret'.value.actor_success
                 /\ ret'.value.effect_magnitude = 0
                 /\ "damage_dealt" \notin DOMAIN ret'.value
                 /\ cmb'[ret'.call.target].current_health
                      = cmb[ret'.call.target].current_health)]_vars

\* C5 witness: a round with equal adjusted rolls, which the target won.
C5_Witness ==
    /\ IsRound(ret)
    /\ ret.value.actor_roll = ret.value.target_roll
    /\ ~ret.value.actor_success
    /\ ret.value.target_momentum = 1

\* the cyclic relation of the claim: Force beats Trick, Trick beats Focus, Focus beats Force
Beats == {<<"Force", "Trick">>, <<"Trick", "Focus">>, <<"Focus", "Force">>}

CoreTypes == {"Force", "Trick", "Focus"}

\* C6: the type advantage is antisymmetric over all six move types; between two
\* distinct types of Force, Trick, Focus exactly one beats the other, as the
\* cycle says; a type against itself, and every pairing with Buff, Debuff or
\* Utility, is neutral.
C6_TypeAdvantageCyclic ==
    ret.op = "calculate_type_advantage"
    => LET a == ret.actor_type
           t == ret.target_type
           v == ret.value
       IN  /\ v = -calculate_type_advantage(t, a)
           /\ (a \in CoreTypes /\ t \in CoreTypes /\ a # t)
                => /\ v \in {1, -1}
                   /\ v = 1 <=> <<a, t>> \in Beats
                   /\ v = -1 <=> <<t, a>> \in Beats
           /\ a = t => v = 0
           /\ (a \notin CoreTypes \/ t \notin CoreTypes) => v = 0

\* C6 witness: Force against Focus was evaluated and the target holds the advantage.
C6_Witness ==
    /\ ret.op = "calculate_type_advantage"
    /\ ret.actor_type = "Force"
    /\ ret.target_type = "Focus"
    /\ ret.value = -1

Unflagged(m) == ~m.is_desperate /\ ~m.is_calculated

\* the roll before the type bonus: die + best domain rating + environment + momentum
PreBonusRoll(c, move, die, s) ==
    die + best_domain_rating(c, move) + environment_roll(s.environment_tags, move)
    + MomentumOf(s, c.name)

\* C7: when neither move is flagged and the two rolls are equal before the type
\* bonus, an actor whose move type beats the target's wins with effect magnitude
\* exactly 2, and an actor whose move type is beaten by the target's fails.
C7_TypeBonusBreaksTie ==
    [][(/\ IsRound(ret')
        /\ Unflagged(ret'.actor_move)
        /\ Unflagged(ret'.target_move)
        /\ PreBonusRoll(cmb[ret'.call.actor], ret'.actor_move, ret'.draws.actor_die,
                        sys[ret'.call.session])
           = PreBonusRoll(cmb[ret'.call.target], ret'.target_move, ret'.draws.target_die,
                          sys[ret'.call.session]))
       => /\ <<ret'.actor_move.move_type, ret'.target_move.move_type>> \in Beats
               => /\ ret'.value.actor_success
                  /\ ret'.value.effect_magnitude = 2
                  /\ ret'.value.actor_roll = ret'.value.target_roll + 2
          /\ <<ret'.target_move.move_type, ret'.actor_move.move_type>> \in Beats
               => /\ ~ret'.value.actor_success
                  /\ ret'.value.effect_magnitude = 2]_vars

\* C7 witness: Force against Trick, unflagged, with momentum on the actor's side:
\* the actor won by exactly the type bonus.
C7_Witness ==
    /\ IsRound(ret)
    /\ Unflagged(ret.actor_move) /\ Unflagged(ret.target_move)
    /\ ret.actor_move.move_type = "Force" /\ ret.target_move.move_type = "Trick"
    /\ ret.value.type_advantage = 1
    /\ ret.value.actor_success
    /\ ret.value.effect_magnitude = 2
    /\ sys[ret.call.session].round_counter >= 2

\* C8: a round resolved, or a move recorded, in one session leaves the momentum
\* and the move history of every other session as they were, also for names
\* that both sessions hold.
C8_SessionsIsolated ==
    [][ret'.op \in {"resolve_opposed_moves", "record_move"}
       => \A other \in Sessions \ {ret'.call.session} :
             /\ sys'[other].momentum = sys[other].momentum
             /\ combo'[other].combatant_move_history = combo[other].combatant_move_history]_vars

\* C8 witness: both sessions hold momentum and a move history for the name Hero,
\* with different values, and a round has changed Hero's momentum in s1 after
\* s2 had stored its own.
C8_Witness ==
    /\ "Hero" \in DOMAIN sys["s1"].momentum /\ "Hero" \in DOMAIN sys["s2"].momentum
    /\ sys["s1"].momentum["Hero"] # sys["s2"].momentum["Hero"]
    /\ "Hero" \in DOMAIN combo["s1"].combatant_move_history
    /\ "Hero" \in DOMAIN combo["s2"].combatant_move_history
    /\ combo["s1"].combatant_move_history["Hero"] # combo["s2"].combatant_move_history["Hero"]
    /\ sys["s1"].round_counter = 2 /\ sys["s2"].round_counter >= 1

\* the moves of the controller's list that its combatant can afford
AffordableMoves == {m \in Range(ai.available_moves) : ~CostExceedsPool(cmb[ai.enemy], lib[m])}

\* C9: choose_move returns a move its combatant can afford at the moment of the
\* call - an affordable member of available_moves or, when there is none, a new
\* Force/Body move without costs - and the round resolved with that move does
\* not fail for the resources of the controller's combatant.
C9_ChosenMoveAffordable ==
    [][/\ ret'.op = "choose_move"
          => /\ ~CostExceedsPool(cmb[ai.enemy], ret'.value)
             /\ IF AffordableMoves # {}
                THEN ret'.move \in AffordableMoves
                ELSE /\ ret'.move \notin Range(ai.available_moves)
                     /\ ret'.value.move_type = "Force"
                     /\ ret'.value.domains = <<"Body">>
                     /\ ret'.value.stamina_cost = 0
                     /\ ret'.value.focus_cost = 0
                     /\ ret'.value.spirit_cost = 0
       /\ (ret.op = "choose_move" /\ IsFailure(ret'))
          => ret'.value.reason[1] # cmb[ai.enemy].name]_vars

\* health / max_health <= 0.30 - risk_taking * 0.15, in exact arithmetic
AtOrBelowThreshold ==
    LET c == cmb[ai.enemy]
        risk == ai.personality.risk_taking
    IN  c.current_health * 100 * risk.d <= (30 * risk.d - 15 * risk.n) * c.max_health

\* C10: when the controller has a usable move, choose_move takes the Desperate
\* branch exactly when health / max_health <= 0.30 - risk_taking * 0.15, whatever
\* the random draws; the move it then returns is flagged desperate and is a
\* Force move if a Force move is usable.
C10_DesperateAtThreshold ==
    [][(ret'.op = "choose_move" /\ AffordableMoves # {})
       => /\ ret'.branch = "desperate" <=> AtOrBelowThreshold
          /\ ret'.branch = "desperate"
               => /\ ret'.value.is_desperate
                  /\ ret'.move \in AffordableMoves
                  /\ (\E m \in AffordableMoves : lib[m].move_type = "Force")
                        => ret'.value.move_type = "Force"]_vars

\* C11: update_from_combat_result, given the result of a resolved round with the
\* player as actor and the controller's combatant as target, appends exactly one
\* entry to player_moves_used, the move type of the player's move.
C11_UpdateRecordsPlayerMove ==
    [][(/\ ret'.op = "update_from_combat_result"
        /\ "actor_success" \in DOMAIN ret'.result
        /\ ret'.call.actor = "c1"
        /\ ret'.call.target = ai.enemy)
       => ai'.memento.player_moves_used
            = Append(ai.memento.player_moves_used, ret'.actor_move.move_type)]_vars

\* the number of positions of the history at which c follows the pair a, b
Occurrences(moves, a, b, c) ==
    Cardinality({i \in 1..(Len(moves) - 2) :
                    moves[i] = a /\ moves[i + 1] = b /\ moves[i + 2] = c})

\* the count the pattern table stores for the pair a, b and the follow-up c
StoredCount(patterns, a, b, c) ==
    IF <<a, b>> \in DictKeys(patterns) /\ c \in DictKeys(DictGet(patterns, <<a, b>>))
    THEN DictGet(DictGet(patterns, <<a, b>>), c)
    ELSE 0

\* C12: after any sequence of record_round calls the pattern table is a true
\* frequency table: the count stored for the pair (a, b) and the follow-up c is
\* the number of positions i of player_moves_used with moves[i] = a,
\* moves[i+1] = b and moves[i+2] = c.
C12_PatternTableIsFrequencyTable ==
    \A a \in MoveTypes, b \in MoveTypes, c \in MoveTypes :
        StoredCount(ai.memento.player_patterns, a, b, c)
          = Occurrences(ai.memento.player_moves_used, a, b, c)

\* C13: predict_next_move returns None when fewer than two moves were recorded
\* or the last two moves never occurred earlier with a follow-up; otherwise it
\* returns a move type that followed those two moves most often in the
\* recorded history; for [Force, Trick, Force, Trick, Force] it returns Trick.
C13_PredictsMostFrequentFollowUp ==
    ret.op = "predict_next_move" =>
        LET moves == ai.memento.player_moves_used
            n == Len(moves)
        IN  /\ n < 2 => ret.value = "None"
            /\ n >= 2 =>
                  LET a == moves[n - 1]
                      b == moves[n]
                  IN  IF \A c \in MoveTypes : Occurrences(moves, a, b, c) = 0
                      THEN ret.value = "None"
                      ELSE /\ ret.value \in MoveTypes
                           /\ \A c \in MoveTypes :
                                 Occurrences(moves, a, b, c)
                                   <= Occurrences(moves, a, b, ret.value)
            /\ moves = <<"Force", "Trick", "Force", "Trick", "Force">>
                  => ret.value = "Trick"

\* the history ComboSystem cs holds for a combatant name ([] if it holds none)
HistoryOf(cs, name) ==
    IF name \in DOMAIN cs.combatant_move_history
    THEN cs.combatant_move_history[name] ELSE <<>>

\* seq is the tail of history: its elements close the history, in order
IsTail(seq, history) ==
    /\ Len(history) >= Len(seq)
    /\ \A i \in 1..Len(seq) : history[Len(history) - Len(seq) + i] = seq[i]

\* C14: check_for_combo reports a combo if and only if the history is at least
\* as long as the required sequence of some combo and ends with exactly that
\* sequence, in order and without gaps; the combo it reports is one whose
\* sequence is that tail.  With [Trick, Focus, Force] registered,
\* [Force, Trick, Focus, Force] matches and [Force, Focus, Trick] does not.
C14_ComboIffTailMatches ==
    ret.op = "check_for_combo" =>
        LET cs == combo[ret.session]
            history == HistoryOf(cs, cmb[ret.combatant].name)
        IN  /\ (ret.value # <<>>) <=>
                  (\E i \in DOMAIN cs.available_combos :
                      IsTail(cs.available_combos[i].required_sequence, history))
            /\ ret.value # <<>> =>
                  /\ ret.value[1] \in Range(cs.available_combos)
                  /\ IsTail(ret.value[1].required_sequence, history)
            /\ history = <<"Force", "Trick", "Focus", "Force">> =>
                  /\ ret.value # <<>>
                  /\ ret.value[1].required_sequence = <<"Trick", "Focus", "Force">>
            /\ history = <<"Force", "Focus", "Trick">> => ret.value = <<>>

C14_Witness ==
    /\ ret.op = "check_for_combo"
    /\ HistoryOf(combo[ret.session], cmb[ret.combatant].name)
         = <<"Force", "Trick", "Focus", "Force">>
    /\ ret.value # <<>>

\* C15: a call of record_move leaves the combatant's history with length
\* min(5, number of moves recorded for that combatant), holding the most
\* recently recorded move types in recording order (from the sixth move on
\* the oldest entry is dropped), and leaves every other history alone.
C15_HistoryIsLastFive ==
    [][ret'.op = "record_move" =>
         LET rec == ret'.call
             name == cmb[rec.combatant].name
             all == Append(HistoryOf(combo[rec.session], name), rec.move_type)
             new == HistoryOf(combo'[rec.session], name)
         IN  /\ Len(new) = Min(5, plan'.count[rec.combatant])
             /\ new = SubSeq(all, Len(all) - Len(new) + 1, Len(all))
             /\ \A other \in DOMAIN combo[rec.session].combatant_move_history \ {name} :
                   HistoryOf(combo'[rec.session], other) = HistoryOf(combo[rec.session], other)
       ]_vars

C15_Witness ==
    /\ ret.op = "record_move"
    /\ plan.count[ret.call.combatant] = 6
    /\ Len(HistoryOf(combo[ret.call.session], cmb[ret.call.combatant].name)) = 5
    /\ HistoryOf(combo[ret.call.session], "Bandit") # <<>>

\* C16: apply_combo_effects on a result the resolver returned yields a record
\* whose actor_momentum is still within 0..3.
C16_ComboMomentumInRange ==
    (ret.op = "apply_combo_effects" /\ "actor_momentum" \in DOMAIN ret.value)
        => ret.value.actor_momentum \in 0..3

\* C19: the combat log is append-only and in step with the round counter: a
\* resolution that succeeds appends exactly its record at the end and adds 1
\* to round_counter; a failed resolution, and every other operation, leaves
\* both alone; no step removes or rewrites an earlier record; and
\* len(combat_log) = round_counter after every step.
C19_LogAppendOnlyInStep ==
    [][\A s \in Sessions :
         /\ Len(sys'[s].combat_log) = sys'[s].round_counter
         /\ Len(sys'[s].combat_log) >= Len(sys[s].combat_log)
         /\ SubSeq(sys'[s].combat_log, 1, Len(sys[s].combat_log)) = sys[s].combat_log
         /\ IF /\ ret'.op = "resolve_opposed_moves"
               /\ ret'.call.session = s
               /\ "actor_success" \in DOMAIN ret'.value
            THEN /\ sys'[s].combat_log = Append(sys[s].combat_log, ret'.value)
                 /\ sys'[s].round_counter = sys[s].round_counter + 1
            ELSE /\ sys'[s].combat_log = sys[s].combat_log
                 /\ sys'[s].round_counter = sys[s].round_counter
      ]_vars

\* a combo applied to the result of a failed resolution that followed three
\* logged rounds
C19_Witness ==
    /\ ret.op = "apply_combo_effects"
    /\ "success" \in DOMAIN ret.result
    /\ Len(sys["s1"].combat_log) = 3
    /\ sys["s1"].round_counter = 3
    /\ sys["s1"].combat_log[3].actor_momentum = 3

\* C17: create_consequence, called with the result of a resolved round,
\* returns None when the actor did not succeed or the magnitude is below 3, a
\* Minor consequence of duration 2 when the actor succeeded with magnitude 3
\* or 4, and a Major consequence of duration 5 with a stamina-regen penalty
\* when the actor succeeded with magnitude 5 or more.
C17_ConsequenceBySeverity ==
    (ret.op = "create_consequence" /\ "actor_success" \in DOMAIN ret.result) =>
        LET result == ret.result
        IN  IF ~result.actor_success \/ result.effect_magnitude < 3
            THEN ret.value = NoneValue
            ELSE IF result.effect_magnitude < 5
            THEN /\ ret.value.type = "Consequence"
                 /\ ret.value.description[1] = "Minor injury from"
                 /\ ret.value.duration = 2
            ELSE /\ ret.value.type = "Consequence"
                 /\ ret.value.description[1] = "Serious injury from"
                 /\ ret.value.duration = 5
                 /\ "stamina_regen" \in DOMAIN ret.value.affected_stats
                 /\ ret.value.affected_stats["stamina_regen"] < 0

\* C18: no operation ends in an uncaught exception: every call hands back a
\* value, none an exception (create_consequence is called on every result
\* the resolver returned, of a resolved round or of a failed one).
C18_NoCallRaises ==
    ret.op = "create_consequence" => ret.value.type \in {"NoneType", "Consequence"}

\* the number of the move's domains that the combatant is weak in
WeakDomainCount(move, c) ==
    Cardinality({i \in DOMAIN move.domains : move.domains[i] \in c.weak_domains})

\* floor((magnitude * 5 + 5 * k) * f), f = 1.5 for a desperate move, else 1
ClaimedDamage(magnitude, k, desperate) ==
    IF desperate THEN (3 * (magnitude * 5 + 5 * k)) \div 2 ELSE magnitude * 5 + 5 * k

\* C20: when the actor succeeds with a Force or Trick move, the reported
\* damage is floor((magnitude * 5 + 5 * k) * f), k the number of the move's
\* domains among the target's weak domains, f = 1.5 for a desperate move and 1
\* otherwise, and the target's health becomes max(0, old health - damage).
C20_DamageFormula ==
    [][(/\ ret'.op = "resolve_opposed_moves"
        /\ "actor_success" \in DOMAIN ret'.value
        /\ ret'.value.actor_success
        /\ ret'.actor_move.move_type \in {"Force", "Trick"})
       => LET target == ret'.call.target
              damage == ClaimedDamage(ret'.value.effect_magnitude,
                                      WeakDomainCount(ret'.actor_move, cmb[target]),
                                      ret'.actor_move.is_desperate)
          IN  /\ ret'.value.damage_dealt = damage
              /\ cmb'[target].current_health = Max(0, cmb[target].current_health - damage)
              /\ ret'.value.current_health = cmb'[target].current_health]_vars

\* a desperate blow on a weak domain whose damage * 1.5 is not an integer
C20_Witness ==
    /\ IsRound(ret)
    /\ ret.value.actor_success
    /\ ret.actor_move.is_desperate
    /\ WeakDomainCount(ret.actor_move, cmb[ret.call.target]) = 1
    /\ 2 * ret.value.damage_dealt < 3 * (ret.value.effect_magnitude * 5 + 5)

\* C21: a resolved round between two distinct combatants changes health only
\* by damaging the target of a successful Force or Trick move: the actor's
\* health, and that of every combatant outside the round, is unchanged; the
\* target's health is unchanged when the actor fails or its move type is
\* Focus, Buff, Debuff or Utility, and never rises.
C21_HealthChangesOnlyByDamage ==
    [][(/\ ret'.op = "resolve_opposed_moves"
        /\ ret'.call.actor # ret'.call.target)
       => LET target == ret'.call.target
              hit == /\ "actor_success" \in DOMAIN ret'.value
                     /\ ret'.value.actor_success
                     /\ ret'.actor_move.move_type \in {"Force", "Trick"}
          IN  /\ \A c \in Combatants \ {target} :
                    cmb'[c].current_health = cmb[c].current_health
              /\ cmb'[target].current_health <= cmb[target].current_health
              /\ ~hit => cmb'[target].current_health = cmb[target].current_health
              /\ ~hit => "damage_dealt" \notin DOMAIN ret'.value]_vars

\* a Buff move that won by a wide margin and left the target at full health
C21_Witness ==
    /\ IsRound(ret)
    /\ ret.value.actor_success
    /\ ret.actor_move.move_type = "Buff"
    /\ ret.value.effect_magnitude >= 3
    /\ ret.call.actor # ret.call.target
    /\ cmb[ret.call.target].current_health = cmb[ret.call.target].max_health

\* C22: a resolved round adds Stunned or Frightened to the target exactly
\* when the actor succeeded with a Debuff move: a successful Debuff move adds
\* one of the two, and a round whose actor move is of type Force, Trick,
\* Focus, Buff or Utility adds neither and reports neither as status_applied.
C22_StunOnlyFromDebuff ==
    [][(/\ ret'.op = "resolve_opposed_moves"
        /\ "actor_success" \in DOMAIN ret'.value)
       => LET target == ret'.call.target
              added == (cmb'[target].statuses \ cmb[target].statuses)
                         \cap {"Stunned", "Frightened"}
          IN  IF ret'.actor_move.move_type = "Debuff"
              THEN ret'.value.actor_success
                     => /\ "status_applied" \in DOMAIN ret'.value
                        /\ ret'.value.status_applied \in {"Stunned", "Frightened"}
                        /\ ret'.value.status_applied \in cmb'[target].statuses
              ELSE /\ added = {}
                   /\ "status_applied" \in DOMAIN ret'.value
                         => ret'.value.status_applied \notin {"Stunned", "Frightened"}]_vars

\* the sum of the modifiers for a domain over a list of tiered records
RECURSIVE DomainModifierSum(_, _)
DomainModifierSum(records, domain) ==
    IF records = <<>> THEN 0
    ELSE get_domain_modifier(Head(records), domain) + DomainModifierSum(Tail(records), domain)

\* max(0, base rating + the domain modifiers of the tiered records)
ModifiedRating(c, domain) ==
    Max(0, (IF domain \in DOMAIN c.domain_ratings THEN c.domain_ratings[domain] ELSE 0)
           + DomainModifierSum(enhanced_statuses(c), domain))

\* the part of a final roll that is the domain rating: the roll without the
\* die, the environment adjustment, the type bonus and the momentum
RatingInRoll(roll, die, move, bonus, s, name) ==
    roll - die - environment_roll(s.environment_tags, move) - bonus - MomentumOf(s, name)

\* C24: the rating a roll uses is max(0, base + the domain modifiers of the
\* combatant's tiered status records), the highest over the move's domains:
\* stated for a target whose Wounded and Confused tags all come from tiered
\* records it holds, answering with an unflagged move.
C24_RollUsesTieredModifiers ==
    [][(/\ ret'.op = "resolve_opposed_moves"
        /\ "actor_success" \in DOMAIN ret'.value
        /\ Unflagged(ret'.target_move)
        /\ enhanced_statuses(cmb[ret'.call.target]) # <<>>
        /\ cmb[ret'.call.target].statuses \cap {"Wounded", "Confused"}
             \subseteq {enhanced_statuses(cmb[ret'.call.target])[i].base_status :
                           i \in DOMAIN enhanced_statuses(cmb[ret'.call.target])})
       => LET c == cmb[ret'.call.target]
              move == ret'.target_move
              ratings == {ModifiedRating(c, move.domains[i]) : i \in DOMAIN move.domains}
          IN  RatingInRoll(ret'.value.target_roll, ret'.draws.target_die, move,
                           IF ret'.value.type_advantage < 0 THEN 2 ELSE 0,
                           sys[ret'.call.session], c.name)
                = CHOOSE r \in ratings : \A q \in ratings : q <= r]_vars

\* C25: apply_to_combatant adds the base tag to the status set, appends the
\* record to the list of tiered records, and applies the max-pool modifiers
\* of the record: max_stamina changes by the max_stamina modifier (not below
\* 1) and max_focus by the max_focus modifier.
C25_ApplyChangesMaxPools ==
    [][ret'.op = "apply_to_combatant" =>
         LET before == cmb[ret'.combatant]
             after == cmb'[ret'.combatant]
             modifier(stat) == IF stat \in DOMAIN ret'.status.stat_modifiers
                               THEN ret'.status.stat_modifiers[stat] ELSE 0
         IN  /\ after.statuses = before.statuses \cup {ret'.status.base_status}
             /\ enhanced_statuses(after) = Append(enhanced_statuses(before), ret'.status)
             /\ after.max_stamina = Max(1, before.max_stamina + modifier("max_stamina"))
             /\ after.max_focus = Max(1, before.max_focus + modifier("max_focus"))]_vars

\* the stamina and focus pools of a combatant are within their bounds
PoolsInBounds(c) ==
    /\ 0 <= c.current_stamina /\ c.current_stamina <= c.max_stamina
    /\ 0 <= c.current_focus /\ c.current_focus <= c.max_focus
    /\ c.max_stamina >= 1

\* C26: applying a tiered status to a combatant whose pools are within their
\* bounds leaves them within their bounds: 0 <= current_stamina <= max_stamina,
\* 0 <= current_focus <= max_focus, and max_stamina >= 1.
C26_StatusKeepsPoolsInBounds ==
    [][(ret'.op = "apply_to_combatant" /\ PoolsInBounds(cmb[ret'.combatant]))
         => PoolsInBounds(cmb'[ret'.combatant])]_vars

\* a step is a resolved round that dealt damage
DamageStep == ret'.op = "resolve_opposed_moves" /\ "damage_dealt" \in DOMAIN ret'.value

\* the damage of the step takes the target from at or above half of its max
\* health to below half
CrossesHalf(c) ==
    /\ 2 * cmb[c].current_health >= cmb[c].max_health
    /\ 2 * cmb'[c].current_health < cmb'[c].max_health

\* what the damage step does with the Wounded status, apart from the report
WoundedFollowsHealth(c) ==
    /\ 2 * cmb'[c].current_health < cmb'[c].max_health => "Wounded" \in cmb'[c].statuses
    /\ 2 * cmb'[c].current_health >= cmb'[c].max_health
         => ("Wounded" \in cmb'[c].statuses <=> "Wounded" \in cmb[c].statuses)

WoundedIsKept == \A c \in DOMAIN cmb : "Wounded" \in cmb[c].statuses => "Wounded" \in cmb'[c].statuses

\* C23 as stated: a round reports wounded = true exactly when its damage is
\* the first to leave the target below half of its max health; the target
\* holds Wounded from then on, and the damage step gives no Wounded to a
\* target at or above half.
C23_WoundedReportedAtFirstCrossing ==
    [][/\ WoundedIsKept
       /\ DamageStep => /\ ret'.value.wounded <=> CrossesHalf(ret'.call.target)
                        /\ WoundedFollowsHealth(ret'.call.target)]_vars

\* C23, with the missing precondition: a round reports wounded = true exactly
\* when its damage is the first to leave the target below half of its max
\* health and the target does not already hold Wounded (from a tiered status
\* applied earlier); the target holds Wounded from then on, and the damage
\* step gives no Wounded to a target at or above half.
C23_WoundedReportedUnlessHeld ==
    [][/\ WoundedIsKept
       /\ DamageStep => /\ ret'.value.wounded <=> (/\ CrossesHalf(ret'.call.target)
                                                    /\ "Wounded" \notin cmb[ret'.call.target].statuses)
                        /\ WoundedFollowsHealth(ret'.call.target)]_vars

\* a second damaging round took an unwounded target below half and said so
C23_Witness ==
    /\ ret.op = "resolve_opposed_moves" /\ "damage_dealt" \in DOMAIN ret.value
    /\ ret.value.wounded /\ plan.free = 1
    /\ enhanced_statuses(cmb[ret.call.target]) = <<>>
    /\ 2 * (ret.value.current_health + ret.value.damage_dealt) >= cmb[ret.call.target].max_health

\* none, Minor, Major or Permanent, ranked 0 to 3
ConsequenceRank(value) ==
    IF value = NoneValue THEN 0
    ELSE IF value.description[1] = "Minor injury from" THEN 1
    ELSE IF value.description[1] = "Serious injury from" THEN 2
    ELSE 3

TierRank(status) ==
    IF ~IsStatus(status) THEN 0
    ELSE IF status.tier = "MINOR" THEN 1
    ELSE IF status.tier = "MODERATE" THEN 2
    ELSE IF status.tier = "SEVERE" THEN 3
    ELSE 4

\* magnitude, plus 2 for a Severe status, plus 4 for a Critical one
ClaimedSeverity(result, status) ==
    result.effect_magnitude + (IF TierRank(status) = 3 THEN 2 ELSE IF TierRank(status) = 4 THEN 4 ELSE 0)

\* C27: the severity create_consequence_from_combat computes is the
\* magnitude, plus 2 for a Severe status, plus 4 for a Critical one, plus 0
\* otherwise, and it is the severity the outcome is chosen by; for one result
\* the class of the consequence (none, Minor, Major, Permanent) never gets
\* milder as the tier rises; a Permanent consequence has duration -1 and a
\* max_health penalty.
C27_SeverityByTier ==
    ret.op = "create_consequence_from_combat" =>
        /\ severity(ret.result, ret.status) = ClaimedSeverity(ret.result, ret.status)
        /\ (ret.result.actor_success /\ ret.result.effect_magnitude >= 3) =>
              ConsequenceRank(ret.value)
                = (IF ClaimedSeverity(ret.result, ret.status) >= 8 THEN 3
                   ELSE IF ClaimedSeverity(ret.result, ret.status) >= 5 THEN 2 ELSE 1)
        /\ \A lower \in StatusArguments :
              TierRank(lower) <= TierRank(ret.status) =>
                ConsequenceRank(create_consequence_from_combat(ret.result, lower))
                  <= ConsequenceRank(ret.value)
        /\ ConsequenceRank(ret.value) = 3 =>
              /\ ret.value.duration = -1
              /\ "max_health" \in DOMAIN ret.value.affected_stats
              /\ ret.value.affected_stats["max_health"] < 0

\* a Critical status turned a magnitude of 4 into a Permanent consequence
C27_Witness ==
    /\ ret.op = "create_consequence_from_combat"
    /\ ret.result.actor_success /\ ret.result.effect_magnitude = 4
    /\ TierRank(ret.status) = 4
    /\ ret.value # NoneValue /\ ret.value.duration = -1

\* the duration of a consequence, 0 for none
DurationOf(value) == IF value = NoneValue THEN 0 ELSE value.duration

\* C28: with no status, or a Minor or Moderate one, the outcome of
\* create_consequence_from_combat is that of the magnitude thresholds alone
\* (none below 3, Minor with duration 2 for 3 or 4, Major with duration 5
\* from 5 up), never Permanent, and it is the outcome of
\* CombatSystem.create_consequence for the same logged round.
C28_PermanentOnlyWithSevereStatus ==
    (ret.op = "create_consequence_from_combat" /\ TierRank(ret.status) <= 2) =>
        /\ ConsequenceRank(ret.value)
             = (IF ~ret.result.actor_success \/ ret.result.effect_magnitude < 3 THEN 0
                ELSE IF ret.result.effect_magnitude < 5 THEN 1 ELSE 2)
        /\ DurationOf(ret.value)
             = (IF ~ret.result.actor_success \/ ret.result.effect_magnitude < 3 THEN 0
                ELSE IF ret.result.effect_magnitude < 5 THEN 2 ELSE 5)
        /\ create_consequence(sys["s1"], ret.result).type = ret.value.type
        /\ DurationOf(create_consequence(sys["s1"], ret.result)) = DurationOf(ret.value)

HasDomain(move, domain) == \E i \in DOMAIN move.domains : move.domains[i] = domain

\* the base roll of the resolver for the same combatant, move and die in a
\* scene without the tag
RollWithout(tag) ==
    calculate_move_roll(sys["s1"].environment_tags \ {tag}, cmb["c1"], ret.move, ret.die)

\* C29: the environment adjustment inside the resolver's base roll is the
\* roll modifier apply_environment_modifiers returns for the same move,
\* combatant and scene tags; with "Confined Space" a Body move rolls 1 lower
\* and with "Darkness" an Awareness move of a combatant not strong in darkness
\* rolls 1 lower.
C29_ResolverUsesEnvironmentSystem ==
    ret.op = "apply_environment_modifiers" =>
        /\ ret.roll - ret.die - best_domain_rating(cmb["c1"], ret.move) = ret.value[1]
        /\ ("Confined Space" \in sys["s1"].environment_tags /\ HasDomain(ret.move, "Body"))
              => ret.roll = RollWithout("Confined Space") - 1
        /\ (/\ "Darkness" \in sys["s1"].environment_tags /\ HasDomain(ret.move, "Awareness")
            /\ "Darkness" \notin cmb["c1"].strong_domains)
              => ret.roll = RollWithout("Darkness") - 1

\* the roll the calculated adjustment starts from: the roll of the side,
\* plus the desperate draw when the move is desperate
BeforeCalculated == IF ret.move.is_desperate THEN ret.roll + ret.desperate_draw ELSE ret.roll

\* C30: the calculated adjustment never lowers a roll: for every roll r it
\* starts from and every draw its result is r or r + 1; the desperate
\* adjustment adds a value from -3 to 5; on a move with both flags the
\* desperate adjustment comes first and the calculated one is applied to its
\* result; a move with neither flag keeps its roll.
C30_CalculatedNeverLowers ==
    ret.op = "adjusted_roll" =>
        /\ BeforeCalculated - ret.roll \in (IF ret.move.is_desperate THEN -3..5 ELSE {0})
        /\ IF ret.move.is_calculated
           THEN /\ BeforeCalculated <= ret.value /\ ret.value <= BeforeCalculated + 1
                /\ ret.value = Max(BeforeCalculated, BeforeCalculated - 1 + ret.calculated_draw)
           ELSE ret.value = BeforeCalculated

\* a move with both flags: the desperate draw -3, then the calculated draw 0,
\* which would lower the roll by one more and does not
C30_Witness ==
    /\ ret.op = "adjusted_roll"
    /\ ret.move.is_desperate /\ ret.move.is_calculated
    /\ ret.desperate_draw = -3 /\ ret.calculated_draw = 0
    /\ ret.value = ret.roll - 3

\* C31: choose_move leaves the move templates as they were: after the call
\* every move of the library (the objects in available_moves among them) has
\* the is_desperate, is_calculated and narrative_hook it had before, also
\* when the call flagged its choice or attached a hook.
C31_TemplatesUnchangedByChoice ==
    [][ret'.op = "choose_move" =>
         \A k \in DOMAIN lib :
            /\ lib'[k].is_desperate = lib[k].is_desperate
            /\ lib'[k].is_calculated = lib[k].is_calculated
            /\ lib'[k].narrative_hook = lib[k].narrative_hook]_vars

\* the moves of the controller its combatant can pay for
UsableMoves == SelectSeq(ai.available_moves, LAMBDA m : can_use_move(cmb[ai.enemy], lib[m]))

\* some usable move has the type that counters the player's last move
HasCounterMove ==
    \E i \in DOMAIN UsableMoves :
       lib[UsableMoves[i]].move_type
         = get_counter_move_type(ai, lib[ret.player_last_move].move_type)

\* some usable move targets a weakness the player shows
HasWeaknessMove ==
    \E i \in DOMAIN UsableMoves :
       LET move == lib[UsableMoves[i]]
       IN  \/ /\ "Wounded" \in cmb["c1"].statuses
              /\ HasDomain(move, "Body") /\ move.move_type = "Force"
           \/ /\ "Confused" \in cmb["c1"].statuses
              /\ HasDomain(move, "Mind") /\ move.move_type = "Focus"

CappedAtOne(x) == IF FracLess(Frac(1, 1), x) THEN Frac(1, 1) ELSE x

\* the step is a recorded round; the controller won it when the player lost
AdaptationStep == ret'.op = "update_from_combat_result" /\ "actor_success" \in DOMAIN ret'.result

\* C33: with adaptability at least 0.30 a recorded round multiplies aggression
\* by 1.05 (capped at 1.0) when the controller won and by 0.95 when it lost,
\* whatever aggression is; with adaptability below 0.30 no trait changes.
C33_AggressionMovesFivePercent ==
    [][AdaptationStep =>
         IF FracLess(ai.personality.adaptability, Frac(3, 10))
         THEN ai'.personality = ai.personality
         ELSE ai'.personality.aggression
                = (IF ~ret'.result.actor_success
                   THEN CappedAtOne(FracMul(ai.personality.aggression, Frac(105, 100)))
                   ELSE FracMul(ai.personality.aggression, Frac(95, 100)))]_vars

\* C34: with adaptability at least 0.30 a recorded round multiplies
\* risk-taking by 1.10 (capped at 1.0) when the controller's health ratio is
\* below 0.50 and it lost the round; in every other case risk-taking moves 5%
\* of the way to 0.5, also after a win with a large effect magnitude.
C34_RiskRisesOrDecays ==
    [][(AdaptationStep /\ ~FracLess(ai.personality.adaptability, Frac(3, 10))) =>
         ai'.personality.risk_taking
           = (IF /\ 2 * cmb[ai.enemy].current_health < cmb[ai.enemy].max_health
                 /\ ret'.result.actor_success
              THEN CappedAtOne(FracMul(ai.personality.risk_taking, Frac(11, 10)))
              ELSE FracAdd(Frac(1, 2),
                           FracMul(FracSub(ai.personality.risk_taking, Frac(1, 2)),
                                   Frac(95, 100))))]_vars

InUnitInterval(x) == ~FracLess(x, Frac(0, 1)) /\ ~FracLess(Frac(1, 1), x)

TraitsInUnitInterval(personality) ==
    /\ InUnitInterval(personality.aggression) /\ InUnitInterval(personality.adaptability)
    /\ InUnitInterval(personality.risk_taking) /\ InUnitInterval(personality.calculation)

\* C35: a call of update_from_combat_result on a controller whose four
\* traits are in [0, 1] leaves them in [0, 1], so they stay there after any
\* number of calls; no call changes adaptability or calculation.
C35_TraitsStayInUnitInterval ==
    [][(AdaptationStep /\ TraitsInUnitInterval(ai.personality)) =>
         /\ TraitsInUnitInterval(ai'.personality)
         /\ ai'.personality.adaptability = ai.personality.adaptability
         /\ ai'.personality.calculation = ai.personality.calculation]_vars

\* two recorded rounds the controller won at aggression 1.0 left it at 1.0
C35_Witness ==
    /\ ret.op = "update_from_combat_result" /\ ~ret.result.actor_success
    /\ Len(ai.memento.player_moves_used) = 2
    /\ ai.personality.aggression = Frac(1, 1)
    /\ ~FracLess(ai.personality.adaptability, Frac(3, 10))

\* the damage bonus of a combo, 0 when it has none
DamageBonus(combo_move) ==
    IF "damage_bonus" \in DOMAIN combo_move.bonus_effect
    THEN combo_move.bonus_effect["damage_bonus"] ELSE 0

\* C36: apply_combo_effects returns a record whose damage_dealt is the
\* input's plus the combo's damage bonus when the input has damage_dealt, and
\* that has no damage_dealt otherwise; whose combo_used is the combo's name,
\* unless the input already carried a combo_used, which is kept; the input,
\* and with it the combat log and its entries, is left as it was.
C36_ComboEffectsAdditive ==
    [][ret'.op = "apply_combo_effects" =>
         /\ ret'.result = ret.value
         /\ sys' = sys
         /\ "damage_dealt" \in DOMAIN ret'.value <=> "damage_dealt" \in DOMAIN ret'.result
         /\ "damage_dealt" \in DOMAIN ret'.result =>
               ret'.value.damage_dealt
                 = ret'.result.damage_dealt + DamageBonus(ret'.combo_move)
         /\ "combo_used" \in DOMAIN ret'.value
         /\ ret'.value.combo_used
              = (IF "combo_used" \in DOMAIN ret'.result THEN ret'.result.combo_used
                 ELSE ret'.combo_move.name)]_vars

\* a second combo with a damage bonus was applied to a record that carried
\* damage and the name of another combo: the damage grew, the name stayed
C36_Witness ==
    /\ ret.op = "apply_combo_effects" /\ ret.applied = 2
    /\ "damage_dealt" \in DOMAIN ret.result /\ DamageBonus(ret.combo_move) > 0
    /\ ret.result.combo_used # ret.combo_move.name
    /\ ret.value.combo_used = ret.result.combo_used
    /\ ret.value.damage_dealt > ret.result.damage_dealt

\* C37: no step raises a combatant's current_health, health is never
\* negative, and a combatant that is defeated (health 0) stays defeated in
\* every later state; the resolver resolves rounds with a defeated actor or
\* target all the same.
C37_HealthNeverRisesDefeatStable ==
    [][\A c \in DOMAIN cmb :
         /\ cmb'[c].current_health <= cmb[c].current_health
         /\ cmb'[c].current_health >= 0
         /\ is_defeated(cmb[c]) => is_defeated(cmb'[c]) /\ cmb'[c].current_health = 0]_vars

\* a round was resolved whose actor was already defeated and still is
C37_Witness ==
    /\ ret.op = "resolve_opposed_moves" /\ "actor_success" \in DOMAIN ret.value
    /\ ret.call.actor = "c2" /\ is_defeated(cmb["c2"])
    /\ Len(sys["s1"].combat_log) = 5
    /\ sys["s1"].combat_log[3].current_health = 0

IsPrefix(s, t) == Len(s) <= Len(t) /\ SubSeq(t, 1, Len(s)) = s

\* C38: no step takes a status from a combatant or changes one it holds:
\* the tags held before are held after, and the structured statuses held
\* before are the first ones held after, durations included; a status is
\* therefore still held in every round after the one that applied it.
C38_StatusesOnlyAccumulate ==
    [][\A c \in DOMAIN cmb :
         /\ cmb[c].statuses \subseteq cmb'[c].statuses
         /\ IsPrefix(enhanced_statuses(cmb[c]), enhanced_statuses(cmb'[c]))]_vars

\* Stunned, applied with duration 3 in round 1, is held after round 5, next
\* to a structured status whose stated duration has not moved
C38_Witness ==
    /\ ret.op = "resolve_opposed_moves"
    /\ Len(sys["s1"].combat_log) = 5
    /\ sys["s1"].combat_log[1].status_applied = "Stunned"
    /\ sys["s1"].combat_log[1].duration = 3
    /\ "Stunned" \in cmb["c2"].statuses
    /\ "Wounded" \in cmb["c2"].statuses
    /\ \E i \in DOMAIN enhanced_statuses(cmb["c2"]) :
          enhanced_statuses(cmb["c2"])[i].duration = 3

\* C39: within one CombatSystem a round changes the momentum of its actor and
\* its target only (the winner one up, at most 3, the loser one down, at
\* least 0) and no move history, and a recorded move changes the history of
\* its combatant only and no momentum, also when another combatant of the
\* session carries the same name.
C39_MomentumAndHistoryPerCombatant ==
    [][/\ ret'.op = "resolve_opposed_moves" =>
            LET s == ret'.call.session
                a == ret'.call.actor
                t == ret'.call.target
            IN  /\ \A c \in DOMAIN cmb \ {a, t} :
                      MomentumOf(sys'[s], cmb[c].name) = MomentumOf(sys[s], cmb[c].name)
                /\ \A c \in DOMAIN cmb : HistoryOf(combo'[s], cmb[c].name) = HistoryOf(combo[s], cmb[c].name)
                /\ IsRound(ret') =>
                      LET w == IF ret'.value.actor_success THEN a ELSE t
                          l == IF ret'.value.actor_success THEN t ELSE a
                      IN  /\ MomentumOf(sys'[s], cmb[w].name) = Min(3, MomentumOf(sys[s], cmb[w].name) + 1)
                          /\ MomentumOf(sys'[s], cmb[l].name) = Max(0, MomentumOf(sys[s], cmb[l].name) - 1)
       /\ ret'.op = "record_move" =>
            LET s == ret'.call.session
            IN  /\ \A c \in DOMAIN cmb \ {ret'.call.combatant} :
                      HistoryOf(combo'[s], cmb[c].name) = HistoryOf(combo[s], cmb[c].name)
                /\ \A c \in DOMAIN cmb : MomentumOf(sys'[s], cmb[c].name) = MomentumOf(sys[s], cmb[c].name)]_vars

====
